---- MODULE Spec2Model ----
(***************************************************************************)
(* State-machine model of the Tabelin table engine (src/src/tablein.js):   *)
(* table state, client and server loading, paging, sorting, searching,     *)
(* cell collaboration and the per-cell version history.                    *)
(*                                                                         *)
(* Arrays of rows are sequences of row references (ids); the row objects   *)
(* themselves live in rowVal, so that originalData and options.data share  *)
(* their rows exactly as the JavaScript arrays do.  JavaScript strings are *)
(* sequences of one-character strings.                                     *)
(***************************************************************************)
EXTENDS Integers, Sequences, FiniteSets, TLC

(***************************************************************************)
(* Bounds of the model.                                                    *)
(***************************************************************************)
MaxRows == 3          \* rows in the data set handed to the constructor
MaxPageSize == 2      \* page sizes 1..MaxPageSize
MaxEdits == 3         \* committed cell edits / applied remote changes
MaxClock == 2         \* Date.now() ranges over 0..MaxClock
MaxVersionsOpt == 2   \* options.maxVersions of a collaborative table
MaxDisplayed == 4     \* no reload is requested once the table body is longer
MaxConnects == 2      \* the collaboration socket opens at most this often

DefaultThreshold == 70   \* options.insightsThreshold: 0.7, in hundredths
Absent == -1          \* an `undefined` numeric field of a JSON object / params

(***************************************************************************)
(* JavaScript values and the conversions the engine applies to them.       *)
(***************************************************************************)
Null == [t |-> "null", n |-> 0, s |-> <<>>]
Num(k) == [t |-> "num", n |-> k, s |-> <<>>]
Str(x) == [t |-> "str", n |-> 0, s |-> x]

Digits == <<"0", "1", "2", "3", "4", "5", "6", "7", "8", "9">>

IsDigit(c) == \E d \in 1..10 : Digits[d] = c

DigitVal(c) == (CHOOSE d \in 1..10 : Digits[d] = c) - 1

RECURSIVE NatToString(_)
NatToString(k) ==
  IF k < 10 THEN <<Digits[k + 1]>>
  ELSE NatToString(k \div 10) \o <<Digits[(k % 10) + 1]>>

\* String(value)
JsString(v) ==
  CASE v.t = "null" -> <<"n", "u", "l", "l">>
    [] v.t = "num" -> IF v.n < 0 THEN <<"-">> \o NatToString(0 - v.n)
                      ELSE NatToString(v.n)
    [] OTHER -> v.s

LowerChar(c) ==
  CASE c = "A" -> "a"
    [] c = "B" -> "b"
    [] OTHER -> c

\* String.prototype.toLowerCase
ToLowerCase(str) == [i \in 1..Len(str) |-> LowerChar(str[i])]

\* String.prototype.includes: scan the start positions left to right
RECURSIVE IncludesFrom(_, _, _)
IncludesFrom(hay, needle, i) ==
  IF i + Len(needle) - 1 > Len(hay) THEN FALSE
  ELSE IF SubSeq(hay, i, i + Len(needle) - 1) = needle THEN TRUE
  ELSE IncludesFrom(hay, needle, i + 1)

Includes(hay, needle) == IncludesFrom(hay, needle, 1)

\* String.prototype.trim() === ''
TrimIsEmpty(str) == \A i \in 1..Len(str) : str[i] = " "

\* parseFloat(value): the longest leading run of digits, NaN if there is none
RECURSIVE LeadingDigits(_)
LeadingDigits(str) ==
  IF str = <<>> \/ ~IsDigit(Head(str)) THEN <<>>
  ELSE <<Head(str)>> \o LeadingDigits(Tail(str))

RECURSIVE DigitsToNat(_)
DigitsToNat(ds) ==
  IF ds = <<>> THEN 0
  ELSE 10 * DigitsToNat(SubSeq(ds, 1, Len(ds) - 1)) + DigitVal(ds[Len(ds)])

ParseFloat(v) ==
  CASE v.t = "num" -> [nan |-> FALSE, x |-> v.n]
    [] v.t = "str" /\ LeadingDigits(v.s) # <<>> ->
         [nan |-> FALSE, x |-> DigitsToNat(LeadingDigits(v.s))]
    [] OTHER -> [nan |-> TRUE, x |-> 0]

\* undefined
Undef == [t |-> "undef", n |-> 0, s |-> <<>>]

\* String.prototype.trim
RECURSIVE Trim(_)
Trim(str) ==
  IF str = <<>> THEN <<>>
  ELSE IF Head(str) = " " THEN Trim(Tail(str))
  ELSE IF str[Len(str)] = " " THEN Trim(SubSeq(str, 1, Len(str) - 1))
  ELSE str

\* Number(value): null is 0, undefined is NaN, a string is trimmed and is 0
\* when empty, the integer it spells when it is digits with an optional
\* sign, NaN otherwise
ToNumber(v) ==
  CASE v.t = "null" -> [nan |-> FALSE, x |-> 0]
    [] v.t = "num" -> [nan |-> FALSE, x |-> v.n]
    [] v.t = "str" ->
         LET str == Trim(v.s)
             negative == str # <<>> /\ Head(str) = "-"
             digits == IF negative THEN Tail(str) ELSE str
         IN IF str = <<>> THEN [nan |-> FALSE, x |-> 0]
            ELSE IF digits # <<>> /\ LeadingDigits(digits) = digits
            THEN [nan |-> FALSE,
                  x |-> IF negative THEN 0 - DigitsToNat(digits)
                        ELSE DigitsToNat(digits)]
            ELSE [nan |-> TRUE, x |-> 0]
    [] OTHER -> [nan |-> TRUE, x |-> 0]

\* new Date(value): null is the epoch, a number is a time value, a string of
\* digits only is parsed as a date after the epoch, any other string of the
\* model's alphabet is an Invalid Date
NewDate(v) ==
  CASE v.t = "null" -> [valid |-> TRUE, time |-> 0]
    [] v.t = "num" -> [valid |-> TRUE, time |-> v.n]
    [] v.t = "str" /\ v.s # <<>> /\ LeadingDigits(v.s) = v.s ->
         [valid |-> TRUE, time |-> 1000 + DigitsToNat(v.s)]
    [] OTHER -> [valid |-> FALSE, time |-> 0]

\* String.prototype.localeCompare: primary weights first (blank < hyphen <
\* digits < letters, case ignored), then case (lower before upper)
Primary(c) ==
  CASE c = " " -> 0
    [] c = "-" -> 1
    [] IsDigit(c) -> 2 + DigitVal(c)
    [] LowerChar(c) = "a" -> 20
    [] LowerChar(c) = "b" -> 21
    [] OTHER -> 30

Tertiary(c) == IF LowerChar(c) = c THEN 0 ELSE 1

RECURSIVE LexCompare(_, _, _)
LexCompare(a, b, useCase) ==
  IF a = <<>> /\ b = <<>> THEN 0
  ELSE IF a = <<>> THEN -1
  ELSE IF b = <<>> THEN 1
  ELSE LET wa == IF useCase THEN Tertiary(Head(a)) ELSE Primary(Head(a))
           wb == IF useCase THEN Tertiary(Head(b)) ELSE Primary(Head(b))
       IN IF wa < wb THEN -1
          ELSE IF wa > wb THEN 1
          ELSE LexCompare(Tail(a), Tail(b), useCase)

LocaleCompare(a, b) ==
  IF LexCompare(a, b, FALSE) # 0 THEN LexCompare(a, b, FALSE)
  ELSE LexCompare(a, b, TRUE)

(***************************************************************************)
(* The data handed to the constructor: rows are drawn from a catalogue of  *)
(* row objects over the three configured columns; column h mixes null, a  *)
(* negative number and the empty string.                                  *)
(***************************************************************************)
Fields == {"f", "g", "h"}

RowCatalogue ==
  << [f |-> Str(<<"A", "b">>), g |-> Num(10),     h |-> Null],
     [f |-> Str(<<"b">>),      g |-> Num(2),      h |-> Num(-5)],
     [f |-> Null,              g |-> Str(<<"2">>), h |-> Str(<<>>)],
     [f |-> Str(<<"a", "b">>), g |-> Null,        h |-> Num(3)] >>

\* the sequences of distinct row references of length at most n
DataSets(n) ==
  LET RowIds == 1..Len(RowCatalogue)
  IN
  { d \in UNION { [1..k -> RowIds] : k \in 0..n } :
      \A i, j \in 1..Len(d) : i # j => d[i] # d[j] }

\* search queries typed by the user
Queries == { <<>>, <<" ">>, <<"a">>, <<"B">>, <<"2">>, <<"n">> }

\* what is typed into the search box of a server-side table
ServerQueries == { <<>>, <<"a">> }

(***************************************************************************)
(* The state of one Tabelin instance and of its environment.               *)
(***************************************************************************)
VARIABLES
  serverSide,        \* options.serverSide
  incremental,       \* options.infiniteScroll || options.lazyLoad
  pageSize,          \* options.pageSize
  currentPage, totalPages, totalRecords, loadedRows, hasMoreData, isBusy,
  searchTerm, sortField, sortDirection,
  originalData,      \* this.originalData
  optionsData,       \* this.options.data
  rowVal,            \* the row objects: row reference -> field -> value
  displayed,         \* the <tr> elements of the table body, in order
  inflight,          \* fetch requests dispatched by loadServerData, unsettled
  serverData,        \* the rows held by the remote endpoint
  conditionalFormatting, \* options.conditionalFormatting, options.rules
                     \* being one rule on column f whose condition function
                     \* throws a TypeError on a null value
  insights,          \* this.insights
  insightsThreshold, \* options.insightsThreshold, in hundredths
  insightsPending,   \* a timer of generateInsights has not fired yet
  collaborators,     \* the elements of collaboratorsContainer, by user id
  presenceLog,       \* history: the type of the last presence message, by user id
  ruleEvaluations,   \* this.ruleEvaluations: the cache of evaluateRule
  businessRules,     \* options.businessRules
  validateOnEdit,    \* options.validateOnEdit
  validationErrors,  \* this.validationErrors: the cell keys with an error
  collaboration,     \* options.collaboration
  collaborationMode, \* options.collaborationMode
  collaborationUser, \* options.collaborationUser
  versionHistory,    \* options.versionHistory
  maxVersions,       \* options.maxVersions
  cellVersions,      \* this.cellVersions: cell key -> version entries
  pendingChanges,    \* this.pendingChanges
  socketOpen,        \* collaborationSocket.readyState === WebSocket.OPEN
  socketRef,         \* this.collaborationSocket is a socket (not null)
  connecting,        \* collaborationSocket.readyState === CONNECTING
  closing,           \* sockets closed by close() whose close event is due
  reconnectTimers,   \* pending setTimeout(initWebSocketConnection, 5000)
  collaborationTimer, \* this.collaborationTimer is a running interval
  destroyed,         \* history: destroy() has been called
  sent,              \* messages written to the collaboration socket
  posts,             \* bodies of the POSTs of sendPendingChanges, unsettled
  posted,            \* bodies of the POSTs the endpoint has accepted
  now,               \* Date.now()
  editLog,           \* history: per cell key, every version ever recorded
  edits,             \* history: cell changes handled so far
  givenData,         \* history: the data array handed to the constructor
  issuedFrom,        \* history: the Table State the pending request left
  lastOp             \* history: the operation that produced this state

vars ==
  << serverSide, incremental, pageSize, currentPage, totalPages, totalRecords,
     loadedRows, hasMoreData, isBusy, searchTerm, sortField, sortDirection,
     originalData, optionsData, rowVal, displayed, inflight, serverData,
     conditionalFormatting, businessRules, validateOnEdit, validationErrors,
     insights, insightsThreshold, insightsPending, collaborators, presenceLog,
     ruleEvaluations,
     collaboration, collaborationMode, collaborationUser, versionHistory,
     maxVersions, cellVersions, pendingChanges, socketOpen, socketRef,
     connecting, closing, reconnectTimers, collaborationTimer, destroyed,
     sent, posts, posted, now, editLog, edits, givenData, issuedFrom, lastOp >>

\* the instance as one object, so that a handler is a function from the
\* instance before the call to the instance after it
This ==
  [ serverSide |-> serverSide, incremental |-> incremental,
    pageSize |-> pageSize, currentPage |-> currentPage,
    totalPages |-> totalPages, totalRecords |-> totalRecords,
    loadedRows |-> loadedRows, hasMoreData |-> hasMoreData,
    isBusy |-> isBusy, searchTerm |-> searchTerm, sortField |-> sortField,
    sortDirection |-> sortDirection, originalData |-> originalData,
    optionsData |-> optionsData, rowVal |-> rowVal, displayed |-> displayed,
    inflight |-> inflight, conditionalFormatting |-> conditionalFormatting,
    businessRules |-> businessRules, validateOnEdit |-> validateOnEdit,
    validationErrors |-> validationErrors, insights |-> insights,
    insightsThreshold |-> insightsThreshold,
    insightsPending |-> insightsPending,
    collaborators |-> collaborators, presenceLog |-> presenceLog,
    ruleEvaluations |-> ruleEvaluations,
    collaboration |-> collaboration, collaborationMode |-> collaborationMode,
    collaborationUser |-> collaborationUser,
    versionHistory |-> versionHistory, maxVersions |-> maxVersions,
    cellVersions |-> cellVersions, pendingChanges |-> pendingChanges,
    socketOpen |-> socketOpen, socketRef |-> socketRef,
    connecting |-> connecting, closing |-> closing,
    reconnectTimers |-> reconnectTimers,
    collaborationTimer |-> collaborationTimer, destroyed |-> destroyed,
    sent |-> sent, posts |-> posts,
    posted |-> posted, editLog |-> editLog ]

\* the instance after a handler has returned
Becomes(self) ==
  /\ serverSide' = self.serverSide
  /\ incremental' = self.incremental
  /\ pageSize' = self.pageSize
  /\ currentPage' = self.currentPage
  /\ totalPages' = self.totalPages
  /\ totalRecords' = self.totalRecords
  /\ loadedRows' = self.loadedRows
  /\ hasMoreData' = self.hasMoreData
  /\ isBusy' = self.isBusy
  /\ searchTerm' = self.searchTerm
  /\ sortField' = self.sortField
  /\ sortDirection' = self.sortDirection
  /\ originalData' = self.originalData
  /\ optionsData' = self.optionsData
  /\ rowVal' = self.rowVal
  /\ displayed' = self.displayed
  /\ inflight' = self.inflight
  /\ conditionalFormatting' = self.conditionalFormatting
  /\ businessRules' = self.businessRules
  /\ validateOnEdit' = self.validateOnEdit
  /\ validationErrors' = self.validationErrors
  /\ insights' = self.insights
  /\ insightsThreshold' = self.insightsThreshold
  /\ insightsPending' = self.insightsPending
  /\ collaborators' = self.collaborators
  /\ presenceLog' = self.presenceLog
  /\ ruleEvaluations' = self.ruleEvaluations
  /\ collaboration' = self.collaboration
  /\ collaborationMode' = self.collaborationMode
  /\ collaborationUser' = self.collaborationUser
  /\ versionHistory' = self.versionHistory
  /\ maxVersions' = self.maxVersions
  /\ cellVersions' = self.cellVersions
  /\ pendingChanges' = self.pendingChanges
  /\ socketOpen' = self.socketOpen
  /\ socketRef' = self.socketRef
  /\ connecting' = self.connecting
  /\ closing' = self.closing
  /\ reconnectTimers' = self.reconnectTimers
  /\ collaborationTimer' = self.collaborationTimer
  /\ destroyed' = self.destroyed
  /\ sent' = self.sent
  /\ posts' = self.posts
  /\ posted' = self.posted
  /\ editLog' = self.editLog

\* name: the operation; q: the query of a search; pre: a fact about the
\* state the operation was invoked in (see each action)
Op(name, q, pre) == [name |-> name, q |-> q, pre |-> pre]

(***************************************************************************)
(* Rendering.  A <tr> is the row it shows and its data-row-index; the      *)
(* placeholder rows carry no row.                                          *)
(***************************************************************************)
NoDataRow == [id |-> 0, idx |-> Absent, kind |-> "no-data"]
ErrorRow == [id |-> 0, idx |-> Absent, kind |-> "error"]

Min(a, b) == IF a < b THEN a ELSE b

\* Math.ceil(a / b) for a >= 0, b > 0
Ceil(a, b) == (a + b - 1) \div b

\* Array.prototype.slice(start, end) for 0 <= start
Slice(arr, start, end) == SubSeq(arr, start + 1, Min(end, Len(arr)))

\* applyConditionalFormatting calls rule.condition(value, row) with no
\* try: the condition of the rule on column f throws on a null value
formattingThrows(self, row) ==
  self.conditionalFormatting /\ self.rowVal[row]["f"].t = "null"

\* renderData(data) throws: the exception of the condition propagates
renderThrows(self, data) ==
  \E i \in 1..Len(data) : formattingThrows(self, data[i])

\* the rows renderData appends: all of them, or those before the row whose
\* formatting throws
rendered(self, data) ==
  LET throwing == { i \in 1..Len(data) : formattingThrows(self, data[i]) }
      last == IF throwing = {} THEN Len(data)
              ELSE (CHOOSE i \in throwing : \A j \in throwing : i <= j) - 1
  IN SubSeq(data, 1, last)

renderData(self, data) ==
  [self EXCEPT !.displayed =
     IF Len(data) = 0 THEN <<NoDataRow>>
     ELSE [i \in 1..Len(rendered(self, data)) |->
             [id |-> data[i], idx |-> i - 1, kind |-> "row"]]]

appendData(self, data) ==
  [self EXCEPT !.displayed =
     @ \o [i \in 1..Len(data) |->
             [id |-> data[i], idx |-> self.loadedRows + i - 1, kind |-> "row"]]]

(***************************************************************************)
(* Loading.                                                                *)
(***************************************************************************)
buildServerParams(self) ==
  [ start |-> IF self.incremental THEN self.loadedRows ELSE Absent,
    length |-> IF self.incremental THEN self.pageSize ELSE Absent,
    page |-> IF self.incremental THEN Absent ELSE self.currentPage,
    pageSize |-> IF self.incremental THEN Absent ELSE self.pageSize,
    search |-> self.searchTerm,
    sortField |-> self.sortField,
    sortOrder |-> IF self.sortField # "" THEN self.sortDirection ELSE "" ]

\* the part of loadServerData that runs before the fetch settles
loadServerData(self) ==
  [self EXCEPT !.inflight = Append(@, buildServerParams(self))]

loadClientData_ShortPage(self) ==
  LET data == self.optionsData IN
  IF self.incremental
  THEN LET initialCount == Min(self.pageSize, Len(data))
           initialData == Slice(data, 0, initialCount)
           shown == IF self.loadedRows = 0 THEN renderData(self, initialData)
                    ELSE appendData(self, initialData)
       IN IF self.loadedRows = 0 /\ renderThrows(self, initialData)
          THEN shown                          \* the exception leaves the method
          ELSE [shown EXCEPT !.loadedRows = initialCount,
                             !.hasMoreData = initialCount < Len(data),
                             !.isBusy = FALSE]
  ELSE LET startIndex == (self.currentPage - 1) * self.pageSize
           endIndex == startIndex + self.pageSize - 1
           pageData == Slice(data, startIndex, endIndex)
       IN IF renderThrows(self, pageData)
          THEN renderData(self, pageData)     \* the exception leaves the method
          ELSE [renderData(self, pageData) EXCEPT
                  !.totalRecords = Len(data),
                  !.totalPages = Ceil(Len(data), self.pageSize),
                  !.isBusy = FALSE]

loadClientData(self) ==
  LET data == self.optionsData IN
  IF self.incremental
  THEN LET initialCount == Min(self.pageSize, Len(data))
           initialData == Slice(data, 0, initialCount)
           shown == IF self.loadedRows = 0 THEN renderData(self, initialData)
                    ELSE appendData(self, initialData)
       IN IF self.loadedRows = 0 /\ renderThrows(self, initialData)
          THEN shown                          \* the exception leaves the method
          ELSE [shown EXCEPT !.loadedRows = initialCount,
                             !.hasMoreData = initialCount < Len(data),
                             !.isBusy = FALSE]
  ELSE LET startIndex == (self.currentPage - 1) * self.pageSize
           endIndex == startIndex + self.pageSize
           pageData == Slice(data, startIndex, endIndex)
       IN IF renderThrows(self, pageData)
          THEN renderData(self, pageData)     \* the exception leaves the method
          ELSE [renderData(self, pageData) EXCEPT
                  !.totalRecords = Len(data),
                  !.totalPages = Ceil(Len(data), self.pageSize),
                  !.isBusy = FALSE]

loadData_Unguarded(self) ==
  LET busy == [self EXCEPT !.isBusy = TRUE] IN
  IF self.serverSide THEN loadServerData(busy) ELSE loadClientData(busy)

loadData(self) ==
  IF self.isBusy THEN self
  ELSE LET busy == [self EXCEPT !.isBusy = TRUE] IN
       IF self.serverSide THEN loadServerData(busy) ELSE loadClientData(busy)

loadMore_WhileMoreOrNot(self) ==
  IF self.isBusy THEN self
  ELSE LET busy == [self EXCEPT !.isBusy = TRUE] IN
       IF self.serverSide THEN loadServerData(busy)
       ELSE LET data == self.optionsData
                nextBatch == Slice(data, self.loadedRows,
                                   self.loadedRows + self.pageSize)
            IN [appendData(busy, nextBatch) EXCEPT
                  !.loadedRows = self.loadedRows + Len(nextBatch),
                  !.hasMoreData = self.loadedRows + Len(nextBatch) < Len(data),
                  !.isBusy = FALSE]

loadMore(self) ==
  IF self.isBusy \/ ~self.hasMoreData THEN self
  ELSE LET busy == [self EXCEPT !.isBusy = TRUE] IN
       IF self.serverSide THEN loadServerData(busy)
       ELSE LET data == self.optionsData
                nextBatch == Slice(data, self.loadedRows,
                                   self.loadedRows + self.pageSize)
            IN [appendData(busy, nextBatch) EXCEPT
                  !.loadedRows = self.loadedRows + Len(nextBatch),
                  !.hasMoreData = self.loadedRows + Len(nextBatch) < Len(data),
                  !.isBusy = FALSE]

\* a || b for numbers, undefined and NaN being Absent
Or(a, b) == IF a # Absent /\ a # 0 THEN a ELSE b

\* the .catch(error => ...) callback of loadServerData
onServerError(self) ==
  [self EXCEPT !.isBusy = FALSE, !.displayed = <<ErrorRow>>]

onServerData_MoreIfAny(self, data) ==
  IF self.incremental
  THEN [appendData(self, data.items) EXCEPT
          !.loadedRows = self.loadedRows + Len(data.items),
          !.hasMoreData = Len(data.items) > 0,
          !.isBusy = FALSE]
  ELSE IF renderThrows(self, data.items)
  THEN onServerError(renderData(self, data.items))
  ELSE [renderData(self, data.items) EXCEPT
          !.totalPages =
             Or(data.totalPages,
                Or(IF data.totalRecords = Absent THEN Absent
                   ELSE Ceil(data.totalRecords, self.pageSize), 1)),
          !.totalRecords =
             Or(data.totalRecords,
                Or(data.recordsTotal, Or(data.recordsFiltered, 0))),
          !.isBusy = FALSE]

\* the .then(data => ...) callback of loadServerData; an exception thrown
\* in it rejects the promise and runs the .catch callback
onServerData(self, data) ==
  IF self.incremental
  THEN [appendData(self, data.items) EXCEPT
          !.loadedRows = self.loadedRows + Len(data.items),
          !.hasMoreData = Len(data.items) >= self.pageSize,
          !.isBusy = FALSE]
  ELSE IF renderThrows(self, data.items)
  THEN onServerError(renderData(self, data.items))
  ELSE [renderData(self, data.items) EXCEPT
          !.totalPages =
             Or(data.totalPages,
                Or(IF data.totalRecords = Absent THEN Absent
                   ELSE Ceil(data.totalRecords, self.pageSize), 1)),
          !.totalRecords =
             Or(data.totalRecords,
                Or(data.recordsTotal, Or(data.recordsFiltered, 0))),
          !.isBusy = FALSE]

(***************************************************************************)
(* Sorting.                                                                *)
(***************************************************************************)
\* String(val || '')
StringOrEmpty(v) ==
  \* value is falsy: null, 0, ''
  LET Falsy ==
        \/ v.t = "null"
        \/ v.t = "num" /\ v.n = 0
        \/ v.t = "str" /\ v.s = <<>>
  IN
  IF Falsy THEN <<>> ELSE JsString(v)

compare_NeverEqual(valA, valB, direction) ==
  IF valA = valB THEN 0
  ELSE
    LET numA == ParseFloat(valA)
        numB == ParseFloat(valB)
        dateA == NewDate(valA)
        dateB == NewDate(valB)
        strA == StringOrEmpty(valA)
        strB == StringOrEmpty(valB)
        less(d) == IF d <= 0 THEN -1 ELSE 1
    IN IF ~numA.nan /\ ~numB.nan
       THEN IF direction = "asc" THEN less(numA.x - numB.x)
            ELSE less(numB.x - numA.x)
       ELSE IF dateA.valid /\ dateB.valid
       THEN IF direction = "asc" THEN less(dateA.time - dateB.time)
            ELSE less(dateB.time - dateA.time)
       ELSE IF direction = "asc" THEN less(LocaleCompare(strA, strB))
            ELSE less(LocaleCompare(strB, strA))

\* the comparator handed to Array.prototype.sort by sortBy
compare(valA, valB, direction) ==
  IF valA = valB THEN 0
  ELSE
    LET numA == ParseFloat(valA)
        numB == ParseFloat(valB)
        dateA == NewDate(valA)
        dateB == NewDate(valB)
        strA == StringOrEmpty(valA)
        strB == StringOrEmpty(valB)
    IN IF ~numA.nan /\ ~numB.nan
       THEN IF direction = "asc" THEN numA.x - numB.x ELSE numB.x - numA.x
       ELSE IF dateA.valid /\ dateB.valid
       THEN IF direction = "asc" THEN dateA.time - dateB.time
            ELSE dateB.time - dateA.time
       ELSE IF direction = "asc" THEN LocaleCompare(strA, strB)
            ELSE LocaleCompare(strB, strA)

\* Array.prototype.sort on an array shorter than 32 elements, as the V8
\* engine runs it: the leading run is counted (and reversed when it is
\* strictly descending), then every later element is placed by a binary
\* search in the sorted prefix.  With a comparator that orders the values
\* consistently this is the stable sort ECMAScript requires; with one that
\* does not, the order is the engine's.
KeyOrder(a, b, field, direction, vals) ==
  compare(vals[a][field], vals[b][field], direction)

\* the length of the leading run of arr, Len(arr) >= 2
CountRun(arr, field, direction, vals) ==
  LET isDescending == KeyOrder(arr[2], arr[1], field, direction, vals) < 0
      continues(k) ==
        IF isDescending
        THEN KeyOrder(arr[k], arr[k - 1], field, direction, vals) < 0
        ELSE KeyOrder(arr[k], arr[k - 1], field, direction, vals) >= 0
      runs == { r \in 2..Len(arr) : \A k \in 3..r : continues(k) }
  IN CHOOSE r \in runs : \A q \in runs : q <= r

Reverse(arr) == [i \in 1..Len(arr) |-> arr[Len(arr) + 1 - i]]

\* the leading run of arr, made ascending
MakeRun(arr, field, direction, vals) ==
  LET run == SubSeq(arr, 1, CountRun(arr, field, direction, vals))
  IN IF KeyOrder(arr[2], arr[1], field, direction, vals) < 0
     THEN Reverse(run) ELSE run

\* the slot of x in sorted[left+1 .. right], by binary search
RECURSIVE BinarySearch(_, _, _, _, _, _, _)
BinarySearch(sorted, x, left, right, field, direction, vals) ==
  IF left >= right THEN left
  ELSE LET mid == left + ((right - left) \div 2) IN
       IF KeyOrder(x, sorted[mid + 1], field, direction, vals) < 0
       THEN BinarySearch(sorted, x, left, mid, field, direction, vals)
       ELSE BinarySearch(sorted, x, mid + 1, right, field, direction, vals)

InsertRow(sorted, x, field, direction, vals) ==
  LET pos == BinarySearch(sorted, x, 0, Len(sorted), field, direction, vals)
  IN SubSeq(sorted, 1, pos) \o <<x>> \o SubSeq(sorted, pos + 1, Len(sorted))

\* the first n elements of arr, sorted
RECURSIVE SortPrefix(_, _, _, _, _)
SortPrefix(arr, n, field, direction, vals) ==
  IF n <= CountRun(arr, field, direction, vals)
  THEN MakeRun(arr, field, direction, vals)
  ELSE InsertRow(SortPrefix(arr, n - 1, field, direction, vals), arr[n],
                 field, direction, vals)

ArraySort(arr, field, direction, vals) ==
  IF Len(arr) < 2 THEN arr
  ELSE SortPrefix(arr, Len(arr), field, direction, vals)

sortBy_SortsInPlace(self, field) ==
  IF field \notin Fields THEN self
  ELSE
    LET toggled ==
          IF self.sortField = field
          THEN [self EXCEPT !.sortDirection =
                              IF @ = "asc" THEN "desc" ELSE "asc"]
          ELSE [self EXCEPT !.sortField = field, !.sortDirection = "asc"]
    IN IF self.serverSide
       THEN loadData([toggled EXCEPT !.currentPage = 1, !.loadedRows = 0])
       ELSE LET sorted == [toggled EXCEPT
                             !.optionsData =
                               ArraySort(@, field, toggled.sortDirection,
                                         self.rowVal),
                             !.originalData =
                               ArraySort(@, field, toggled.sortDirection,
                                         self.rowVal)]
            IN IF self.incremental
               THEN loadData([sorted EXCEPT !.loadedRows = 0,
                                            !.hasMoreData = TRUE])
               ELSE loadData([sorted EXCEPT !.currentPage = 1])

sortBy(self, field) ==
  IF field \notin Fields THEN self          \* no header for the field
  ELSE
    LET toggled ==
          IF self.sortField = field
          THEN [self EXCEPT !.sortDirection =
                              IF @ = "asc" THEN "desc" ELSE "asc"]
          ELSE [self EXCEPT !.sortField = field, !.sortDirection = "asc"]
    IN IF self.serverSide
       THEN loadData([toggled EXCEPT !.currentPage = 1, !.loadedRows = 0])
       ELSE LET sorted == [toggled EXCEPT !.optionsData =
                             ArraySort(@, field, toggled.sortDirection,
                                       self.rowVal)]
            IN IF self.incremental
               THEN loadData([sorted EXCEPT !.loadedRows = 0,
                                            !.hasMoreData = TRUE])
               ELSE loadData([sorted EXCEPT !.currentPage = 1])

(***************************************************************************)
(* Searching.                                                              *)
(***************************************************************************)
rowMatches_CaseSensitive(row, lowercaseQuery, vals) ==
  \E column \in Fields :
    LET value == vals[row][column] IN
    IF value.t = "null" THEN FALSE
    ELSE Includes(JsString(value), lowercaseQuery)

\* the callback of originalData.filter in search
rowMatches(row, lowercaseQuery, vals) ==
  \E column \in Fields :
    LET value == vals[row][column] IN
    IF value.t = "null" THEN FALSE
    ELSE Includes(ToLowerCase(JsString(value)), lowercaseQuery)

\* Array.prototype.filter with that callback
RECURSIVE filterRows(_, _, _)
filterRows(arr, lowercaseQuery, vals) ==
  IF arr = <<>> THEN <<>>
  ELSE (IF rowMatches(Head(arr), lowercaseQuery, vals) THEN <<Head(arr)>>
        ELSE <<>>) \o filterRows(Tail(arr), lowercaseQuery, vals)

search_BlankKeepsData(self, query) ==
  LET found ==
        IF query = <<>> \/ TrimIsEmpty(query)
        THEN self
        ELSE [self EXCEPT !.optionsData =
                filterRows(self.originalData, ToLowerCase(query), self.rowVal)]
  IN IF self.incremental
     THEN loadData([found EXCEPT !.loadedRows = 0, !.hasMoreData = TRUE])
     ELSE loadData([found EXCEPT
                      !.currentPage = 1,
                      !.totalPages = Ceil(Len(found.optionsData),
                                          self.pageSize)])

search(self, query) ==
  LET found ==
        IF query = <<>> \/ TrimIsEmpty(query)
        THEN [self EXCEPT !.optionsData = self.originalData]
        ELSE [self EXCEPT !.optionsData =
                filterRows(self.originalData, ToLowerCase(query), self.rowVal)]
  IN IF self.incremental
     THEN loadData([found EXCEPT !.loadedRows = 0, !.hasMoreData = TRUE])
     ELSE loadData([found EXCEPT
                      !.currentPage = 1,
                      !.totalPages = Ceil(Len(found.optionsData),
                                          self.pageSize)])

\* the debounced input handler of the search box of a server-side table
searchInput(self, value) ==
  loadData([self EXCEPT !.searchTerm = value, !.currentPage = 1,
                        !.loadedRows = 0])

(***************************************************************************)
(* Paging and refresh.                                                     *)
(***************************************************************************)
nextPage_Inclusive(self) ==
  IF self.currentPage <= self.totalPages /\ ~self.isBusy
  THEN loadData([self EXCEPT !.currentPage = @ + 1])
  ELSE self

nextPage(self) ==
  IF self.currentPage < self.totalPages /\ ~self.isBusy
  THEN loadData([self EXCEPT !.currentPage = @ + 1])
  ELSE self

prevPage(self) ==
  IF self.currentPage > 1 /\ ~self.isBusy
  THEN loadData([self EXCEPT !.currentPage = @ - 1])
  ELSE self

goToPage_PastTheEnd(self, page) ==
  IF page >= 1 /\ ~self.isBusy
  THEN loadData([self EXCEPT !.currentPage = page])
  ELSE self

goToPage(self, page) ==
  IF page >= 1 /\ page <= self.totalPages /\ ~self.isBusy
  THEN loadData([self EXCEPT !.currentPage = page])
  ELSE self

\* the change handler of the page-size selector
pageSizeChange(self, size) ==
  loadData([self EXCEPT !.pageSize = size, !.currentPage = 1])

refresh_KeepsOffset(self) ==
  IF self.incremental
  THEN loadData([self EXCEPT !.hasMoreData = TRUE])
  ELSE loadData([self EXCEPT !.currentPage = 1])

refresh(self) ==
  IF self.incremental
  THEN loadData([self EXCEPT !.loadedRows = 0, !.hasMoreData = TRUE])
  ELSE loadData([self EXCEPT !.currentPage = 1])

(***************************************************************************)
(* Collaboration and version history.                                      *)
(***************************************************************************)
Undefined == "undefined"

\* a user object; present = FALSE stands for null / undefined
NoUser == [present |-> FALSE, id |-> Undefined, name |-> Undefined]
User(id, name) == [present |-> TRUE, id |-> id, name |-> name]

ConfiguredUser == User("u1", "Ann")
RemoteUser == User("u2", "Bob")

\* the ids of the users presence messages are about
UserIds == {"u1", "u2"}

\* no .collaborator element of the user is in the container; timers counts
\* the pending removal timers that hold the user's current element
NoCollaborator == [present |-> FALSE, disconnected |-> FALSE, timers |-> 0]

\* updateCollaboratorPresence(message)
updateCollaboratorPresence(self, message) ==
  LET id == message.user.id
      logged == [self EXCEPT !.presenceLog[id] = message.type]
  IN IF message.type = "user-connected"
     THEN IF self.collaborators[id].present THEN logged
          ELSE [logged EXCEPT !.collaborators[id] =
                  [present |-> TRUE, disconnected |-> FALSE, timers |-> 0]]
     ELSE IF self.collaborators[id].present
     THEN [logged EXCEPT !.collaborators[id].disconnected = TRUE,
                         !.collaborators[id].timers = @ + 1]
     ELSE logged

\* the callback of the removal timer of a user's current element: the
\* element leaves the container; the other timers that hold it find it
\* detached and do nothing
removeCollaborator(self, id) ==
  [self EXCEPT !.collaborators[id] = NoCollaborator]

\* options.collaborationUser || { name: 'Local User' }
localIdentity(self) ==
  IF self.collaborationUser.present THEN self.collaborationUser
  ELSE User(Undefined, "Local User")

\* the cell key `${rowIndex}:${columnField}`
CellKey(rowIndex, columnField) == <<rowIndex, columnField>>

CellKeys == { CellKey(r, c) : r \in 0..MaxRows, c \in Fields }

\* this.options.data[rowIndex] is a row
hasRow(self, rowIndex) == rowIndex >= 0 /\ rowIndex < Len(self.optionsData)

setCell(self, rowIndex, columnField, value) ==
  [self EXCEPT !.rowVal[self.optionsData[rowIndex + 1]][columnField] = value]

addToVersionHistory(self, rowIndex, columnField, value, user, time) ==
  IF ~self.versionHistory THEN self
  ELSE
    LET cellKey == CellKey(rowIndex, columnField)
        entry == [ value |-> value, timestamp |-> time,
                   user |-> IF user.present THEN user
                            ELSE User(Undefined, "Unknown User") ]
        pushed == Append(self.cellVersions[cellKey], entry)
    IN [self EXCEPT
          !.cellVersions[cellKey] =
             IF Len(pushed) > self.maxVersions THEN Tail(pushed) ELSE pushed,
          !.editLog[cellKey] = Append(@, entry)]

sendCellChange(self, rowIndex, columnField, value, time) ==
  LET change == [ type |-> "cell-change", rowIndex |-> rowIndex,
                  columnField |-> columnField, value |-> value,
                  user |-> localIdentity(self), timestamp |-> time ]
  IN IF self.collaborationMode = "websocket" /\ self.socketOpen
     THEN [self EXCEPT !.sent = Append(@, change)]
     ELSE [self EXCEPT !.pendingChanges = Append(@, change)]

updateCellFromCollaboration_NoVersion(self, rowIndex, columnField, value, user, time) ==
  IF user.present /\ self.collaborationUser.present
     /\ user.id = self.collaborationUser.id
  THEN self
  ELSE IF columnField \notin Fields THEN self
  ELSE IF ~hasRow(self, rowIndex) THEN self
  ELSE setCell(self, rowIndex, columnField, value)

updateCellFromCollaboration(self, rowIndex, columnField, value, user, time) ==
  IF user.present /\ self.collaborationUser.present
     /\ user.id = self.collaborationUser.id
  THEN self                                  \* ignore our own messages
  ELSE IF columnField \notin Fields THEN self
  ELSE IF ~hasRow(self, rowIndex) THEN self
  ELSE addToVersionHistory(setCell(self, rowIndex, columnField, value),
                           rowIndex, columnField, value, user, time)

\* the onopen handler of the collaboration socket
onopen(self) ==
  [self EXCEPT !.socketOpen = TRUE, !.connecting = FALSE,
               !.sent = Append(@, [ type |-> "connect",
                                    user |-> IF self.collaborationUser.present
                                             THEN self.collaborationUser
                                             ELSE User("anonymous",
                                                       "Anonymous User") ])]

\* the onclose handler of a collaboration socket: it schedules a new
\* connection
onclose(self) == [self EXCEPT !.reconnectTimers = @ + 1]

\* new WebSocket(collaborationUrl), with its handlers
initWebSocketConnection(self) ==
  [self EXCEPT !.socketRef = TRUE, !.connecting = TRUE, !.socketOpen = FALSE]

\* close() of a socket that is connecting or open fires its close event
\* later; clearInterval stops the polling timer
cleanupCollaboration(self) ==
  LET closed ==
        IF self.socketRef
        THEN [self EXCEPT !.closing = IF self.connecting \/ self.socketOpen
                                      THEN @ + 1 ELSE @,
                          !.socketOpen = FALSE, !.connecting = FALSE,
                          !.socketRef = FALSE]
        ELSE self
  IN [closed EXCEPT !.collaborationTimer = FALSE]

\* destroy(): the table leaves the document, then cleanupCollaboration()
destroy(self) ==
  cleanupCollaboration([self EXCEPT !.displayed = <<>>, !.destroyed = TRUE])

sendPendingChanges(self) ==
  IF Len(self.pendingChanges) = 0 THEN self
  ELSE [self EXCEPT !.posts = Append(@, self.pendingChanges),
                    !.pendingChanges = <<>>]

\* the .catch(error => ...) callback of sendPendingChanges
onPostRejected(self, changes) ==
  [self EXCEPT !.pendingChanges = @ \o changes]

handleCollaborationMessage(self, message, time) ==
  IF message.type = "cell-change"
  THEN updateCellFromCollaboration(self, message.rowIndex,
                                   message.columnField, message.value,
                                   message.user, time)
  ELSE IF message.type \in {"user-connected", "user-disconnected"}
  THEN updateCollaboratorPresence(self, message)
  ELSE self

\* the dblclick handler of makeTableEditable followed by saveEdit, on the
\* <tr> element tr and the cell of column columnField
editCell(self, tr, columnField, newValue, time) ==
  IF tr.kind # "row" \/ ~hasRow(self, tr.idx) THEN self
  ELSE LET rowIndex == tr.idx
           value == self.rowVal[self.optionsData[rowIndex + 1]][columnField]
       IN IF newValue = value THEN self
          ELSE addToVersionHistory(
                 sendCellChange(setCell(self, rowIndex, columnField, newValue),
                                rowIndex, columnField, newValue, time),
                 rowIndex, columnField, newValue, localIdentity(self), time)

restoreVersion(self, rowIndex, columnField, value, time) ==
  \* options.collaborationUser?.name + ' (restored)'
  LET RestoredName(user) ==
        IF user.present /\ user.name = "Ann" THEN "Ann (restored)"
        ELSE "undefined (restored)"
  IN
  IF ~hasRow(self, rowIndex) THEN self
  ELSE IF columnField \notin Fields
  THEN setCell(self, rowIndex, columnField, value)
  ELSE addToVersionHistory(
         sendCellChange(setCell(self, rowIndex, columnField, value),
                        rowIndex, columnField, value, time),
         rowIndex, columnField, value,
         User(self.collaborationUser.id,
              RestoredName(self.collaborationUser)),
         time)

\* versions.sort((a, b) => b.timestamp - a.timestamp), stable
InsertVersion(sorted, x) ==
  LET notGreater == { i \in 1..Len(sorted) :
                        sorted[i].timestamp - x.timestamp >= 0 }
      pos == IF notGreater = {} THEN 0
             ELSE CHOOSE i \in notGreater : \A j \in notGreater : j <= i
  IN SubSeq(sorted, 1, pos) \o <<x>> \o SubSeq(sorted, pos + 1, Len(sorted))

RECURSIVE SortNewestFirst(_)
SortNewestFirst(versions) ==
  IF versions = <<>> THEN <<>>
  ELSE InsertVersion(SortNewestFirst(SubSeq(versions, 1, Len(versions) - 1)),
                     versions[Len(versions)])

\* getCellVersionHistory returns the stored array, which the dialog sorts
showVersionHistory(self, rowIndex, columnField) ==
  LET cellKey == CellKey(rowIndex, columnField) IN
  IF Len(self.cellVersions[cellKey]) = 0 THEN self
  ELSE [self EXCEPT !.cellVersions[cellKey] = SortNewestFirst(@)]

(***************************************************************************)
(* The rules engine.                                                       *)
(***************************************************************************)
\* a comparison of two numbers with NaN: false when either is NaN
Greater(a, b) == ~a.nan /\ ~b.nan /\ a.x > b.x
GreaterOrEqual(a, b) == ~a.nan /\ ~b.nan /\ a.x >= b.x

\* a function the user wrote, by name
Fn(name) == [t |-> "fn", n |-> 0, s |-> <<name>>]

\* condition.value(value, row, column) for the functions of the model:
\* v => typeof v === 'number' and v => typeof v === 'string'
CallFunction(fn, value) ==
  IF fn = Fn("isNumber") THEN value.t \in {"num", "nan"}
  ELSE value.t = "str"

evaluateCondition_OrEqualIsStrict(condition, value) ==
  CASE condition.operator = ">" ->
         Greater(ToNumber(value), ToNumber(condition.value))
    [] condition.operator = ">=" ->
         Greater(ToNumber(value), ToNumber(condition.value))
    [] condition.operator = "<" ->
         Greater(ToNumber(condition.value), ToNumber(value))
    [] condition.operator = "<=" ->
         GreaterOrEqual(ToNumber(condition.value), ToNumber(value))
    [] condition.operator = "is_null" -> value.t \in {"null", "undef"}
    [] condition.operator = "function" ->
         condition.value.t = "fn" /\ CallFunction(condition.value, value)
    [] OTHER -> FALSE

\* rulesEngine.evaluateCondition(condition, row, column, value)
evaluateCondition(condition, value) ==
  CASE condition.operator = ">" ->
         Greater(ToNumber(value), ToNumber(condition.value))
    [] condition.operator = ">=" ->
         GreaterOrEqual(ToNumber(value), ToNumber(condition.value))
    [] condition.operator = "<" ->
         Greater(ToNumber(condition.value), ToNumber(value))
    [] condition.operator = "<=" ->
         GreaterOrEqual(ToNumber(condition.value), ToNumber(value))
    [] condition.operator = "is_null" -> value.t \in {"null", "undef"}
    [] condition.operator = "function" ->
         condition.value.t = "fn" /\ CallFunction(condition.value, value)
    [] OTHER -> FALSE

(***************************************************************************)
(* The remote endpoint: it answers a request with the window of its rows   *)
(* the request asks for, and reports the total in one of the four shapes   *)
(* the engine accepts.                                                     *)
(***************************************************************************)
ResponseShapes == {"totalPages", "totalRecords", "recordsTotal",
                   "recordsFiltered"}

serverReply(req, shape) ==
  LET start == IF req.start # Absent THEN req.start
               ELSE (req.page - 1) * req.pageSize
      length == IF req.length # Absent THEN req.length ELSE req.pageSize
      total == Len(serverData)
  IN [ items |-> Slice(serverData, start, start + length),
       totalPages |-> IF shape = "totalPages" THEN Ceil(total, length)
                      ELSE Absent,
       totalRecords |-> IF shape = "totalRecords" THEN total ELSE Absent,
       recordsTotal |-> IF shape = "recordsTotal" THEN total ELSE Absent,
       recordsFiltered |-> IF shape = "recordsFiltered" THEN total
                           ELSE Absent ]

RemoveAt(seq, i) == SubSeq(seq, 1, i - 1) \o SubSeq(seq, i + 1, Len(seq))

(***************************************************************************)
(* Construction: the constructor copies the data, init() renders the       *)
(* first page or batch (or dispatches the first request).                  *)
(***************************************************************************)
DefaultMaxVersions == 10

NoVersions == [k \in CellKeys |-> <<>>]

\* the instance when the constructor has set its fields
Created(server, incr, size, data, collab, mode, user, history, maxV, open) ==
    [ serverSide |-> server, incremental |-> incr, pageSize |-> size,
      currentPage |-> 1, totalPages |-> 1, totalRecords |-> 0,
      loadedRows |-> 0, hasMoreData |-> FALSE, isBusy |-> FALSE,
      searchTerm |-> <<>>, sortField |-> "", sortDirection |-> "asc",
      originalData |-> data, optionsData |-> data,
      rowVal |-> RowCatalogue, displayed |-> <<>>, inflight |-> <<>>,
      conditionalFormatting |-> FALSE,
      businessRules |-> <<>>, validateOnEdit |-> TRUE,
      validationErrors |-> {},
      insights |-> <<>>, insightsThreshold |-> DefaultThreshold,
      insightsPending |-> FALSE,
      collaborators |-> [id \in UserIds |-> NoCollaborator],
      presenceLog |-> [id \in UserIds |-> "none"],
      ruleEvaluations |-> {},
      collaboration |-> collab, collaborationMode |-> mode,
      collaborationUser |-> user, versionHistory |-> history,
      maxVersions |-> maxV, cellVersions |-> NoVersions,
      pendingChanges |-> <<>>, socketOpen |-> open,
      \* initCollaboration, the table having a collaborationUrl
      socketRef |-> collab /\ mode = "websocket",
      connecting |-> collab /\ mode = "websocket" /\ ~open,
      closing |-> 0, reconnectTimers |-> 0,
      collaborationTimer |-> collab /\ mode = "polling",
      destroyed |-> FALSE, sent |-> <<>>,
      posts |-> <<>>, posted |-> <<>>,
      editLog |-> NoVersions ]

\* init() ends with the first loadData()
Constructed(server, incr, size, data, collab, mode, user, history, maxV, open) ==
  loadData(Created(server, incr, size, data, collab, mode, user, history,
                   maxV, open))

\* the Table State of the instance
TableState(self) ==
  [ currentPage |-> self.currentPage, totalPages |-> self.totalPages,
    totalRecords |-> self.totalRecords, loadedRows |-> self.loadedRows,
    searchTerm |-> self.searchTerm, sortField |-> self.sortField,
    sortDirection |-> self.sortDirection ]

\* no request is pending, or several are
NoTableState == [ currentPage |-> 0 ]

\* the specification does not record the Table State requests leave behind
Untracked == [ currentPage |-> Absent ]

Starts(self) ==
  /\ serverSide = self.serverSide
  /\ incremental = self.incremental
  /\ pageSize = self.pageSize
  /\ currentPage = self.currentPage
  /\ totalPages = self.totalPages
  /\ totalRecords = self.totalRecords
  /\ loadedRows = self.loadedRows
  /\ hasMoreData = self.hasMoreData
  /\ isBusy = self.isBusy
  /\ searchTerm = self.searchTerm
  /\ sortField = self.sortField
  /\ sortDirection = self.sortDirection
  /\ originalData = self.originalData
  /\ optionsData = self.optionsData
  /\ rowVal = self.rowVal
  /\ displayed = self.displayed
  /\ inflight = self.inflight
  /\ conditionalFormatting = self.conditionalFormatting
  /\ businessRules = self.businessRules
  /\ validateOnEdit = self.validateOnEdit
  /\ validationErrors = self.validationErrors
  /\ insights = self.insights
  /\ insightsThreshold = self.insightsThreshold
  /\ insightsPending = self.insightsPending
  /\ collaborators = self.collaborators
  /\ presenceLog = self.presenceLog
  /\ ruleEvaluations = self.ruleEvaluations
  /\ collaboration = self.collaboration
  /\ collaborationMode = self.collaborationMode
  /\ collaborationUser = self.collaborationUser
  /\ versionHistory = self.versionHistory
  /\ maxVersions = self.maxVersions
  /\ cellVersions = self.cellVersions
  /\ pendingChanges = self.pendingChanges
  /\ socketOpen = self.socketOpen
  /\ socketRef = self.socketRef
  /\ connecting = self.connecting
  /\ closing = self.closing
  /\ reconnectTimers = self.reconnectTimers
  /\ collaborationTimer = self.collaborationTimer
  /\ destroyed = self.destroyed
  /\ sent = self.sent
  /\ posts = self.posts
  /\ posted = self.posted
  /\ editLog = self.editLog
  /\ now = 0
  /\ edits = 0
  /\ givenData = self.originalData
  /\ lastOp = Op("init", <<>>, FALSE)

\* the first n rows of the catalogue
FirstRows(n) == [i \in 1..Min(n, Len(RowCatalogue)) |-> i]

\* a client-side table without collaboration, paged or incremental, over
\* any data set of the catalogue
Init ==
  \E incr \in BOOLEAN, size \in 1..MaxPageSize, data \in DataSets(MaxRows) :
    /\ serverData = <<>>
    /\ issuedFrom = Untracked
    /\ Starts(Constructed(FALSE, incr, size, data, FALSE, "websocket", NoUser,
                          FALSE, DefaultMaxVersions, FALSE))

\* a server-side table without collaboration, paged or incremental: the
\* constructor gets no data, the endpoint holds the rows
InitServer ==
  \E incr \in BOOLEAN, size \in 1..MaxPageSize,
     data \in { FirstRows(n) : n \in 0..MaxRows } :
    /\ serverData = data
    /\ issuedFrom = Untracked
    /\ Starts(Constructed(TRUE, incr, size, <<>>, FALSE, "websocket", NoUser,
                          FALSE, DefaultMaxVersions, FALSE))

\* a table, client-side or server-side, paged or incremental, over the
\* first rows of the catalogue, with or without a conditional-formatting
\* rule; the constructor returned (its first render did not throw)
InitLoads ==
  \E server \in BOOLEAN, incr \in BOOLEAN, size \in 1..MaxPageSize,
     formatting \in BOOLEAN :
    LET created == [Created(server, incr, size,
                            IF server THEN <<>> ELSE FirstRows(MaxRows),
                            FALSE, "websocket", NoUser, FALSE,
                            DefaultMaxVersions, FALSE)
                      EXCEPT !.conditionalFormatting = formatting]
    IN /\ server \/ ~loadData(created).isBusy
       /\ serverData = (IF server THEN FirstRows(MaxRows) ELSE <<>>)
       /\ issuedFrom = (IF server THEN TableState(created) ELSE NoTableState)
       /\ Starts(loadData(created))

(***************************************************************************)
(* The operations of the table.                                            *)
(***************************************************************************)
\* an operation that dispatches the only pending request leaves the Table
\* State it was invoked in behind; an operation invoked while a request is
\* pending that dispatches another, or changes the Table State, ends the
\* record
Env ==
  /\ UNCHANGED <<serverData, now, edits, givenData>>
  /\ issuedFrom' = IF issuedFrom = Untracked THEN Untracked
                   ELSE IF Len(inflight) = 0
                   THEN (IF Len(inflight') = 1 THEN TableState(This)
                         ELSE issuedFrom)
                   ELSE IF Len(inflight') # Len(inflight)
                           \/ TableState(This)' # TableState(This)
                   THEN NoTableState
                   ELSE issuedFrom

\* a reload of a server-side incremental table appends to the table body
Reloadable == (serverSide /\ incremental) => Len(displayed) < MaxDisplayed

Refresh ==
  /\ Reloadable
  /\ Becomes(refresh(This))
  /\ lastOp' = Op("refresh", <<>>, isBusy)
  /\ Env

\* sortBy(field) as the header's click handler calls it (direction ""), or
\* sortBy(field, direction) as the README documents it: the method declares
\* one parameter, a second argument is dropped
SortBy_OnTheOriginal(field, direction) ==
  /\ Reloadable
  /\ Becomes([sortBy(This, field) EXCEPT
               !.originalData = IF serverSide THEN @
                                ELSE sortBy(This, field).optionsData])
  /\ lastOp' = Op("sortBy", <<field, direction>>, isBusy)
  /\ Env

SortBy(field, direction) ==
  /\ Reloadable
  /\ Becomes(sortBy(This, field))
  /\ lastOp' = Op("sortBy", <<field, direction>>, isBusy)
  /\ Env

Search(query) ==
  /\ Reloadable
  /\ Becomes(search(This, query))
  /\ lastOp' = Op("search", query,
                  Len(optionsData) < Len(originalData))
  /\ Env

SearchInput(value) ==
  /\ serverSide
  /\ Reloadable
  /\ Becomes(searchInput(This, value))
  /\ lastOp' = Op("searchInput", <<>>, isBusy)
  /\ Env

PageSizeChange(size) ==
  /\ ~incremental
  /\ Becomes(pageSizeChange(This, size))
  /\ lastOp' = Op("pageSize", <<>>, isBusy)
  /\ Env

NextPage ==
  /\ ~incremental
  /\ Becomes(nextPage(This))
  /\ lastOp' = Op("nextPage", <<>>, currentPage = totalPages)
  /\ Env

PrevPage ==
  /\ ~incremental
  /\ Becomes(prevPage(This))
  /\ lastOp' = Op("prevPage", <<>>, currentPage = 1)
  /\ Env

GoToPage(page) ==
  /\ ~incremental
  /\ Becomes(goToPage(This, page))
  /\ lastOp' = Op("goToPage", <<>>,
                  page < 1 \/ page > totalPages)
  /\ Env

LoadMore ==
  /\ incremental
  /\ Becomes(loadMore(This))
  /\ lastOp' = Op("loadMore", <<>>, isBusy \/ ~hasMoreData)
  /\ Env

ServerSuccess ==
  \E i \in 1..Len(inflight), shape \in ResponseShapes :
    /\ Becomes(onServerData([This EXCEPT !.inflight = RemoveAt(@, i)],
                            serverReply(inflight[i], shape)))
    /\ lastOp' = Op("response", <<>>, FALSE)
    /\ UNCHANGED <<serverData, now, edits, givenData>>
    /\ issuedFrom' = IF issuedFrom = Untracked THEN Untracked
                     ELSE NoTableState

ServerFailure ==
  \E i \in 1..Len(inflight) :
    /\ Becomes(onServerError([This EXCEPT !.inflight = RemoveAt(@, i)]))
    /\ lastOp' = Op("failure", <<>>, FALSE)
    /\ UNCHANGED <<serverData, now, edits, givenData>>
    /\ issuedFrom' = IF issuedFrom = Untracked THEN Untracked
                     ELSE NoTableState

\* the answer to a request arrives, the operation recording the answer and
\* the request it answers
ServerAnswers ==
  \E i \in 1..Len(inflight), shape \in ResponseShapes :
    /\ Becomes(onServerData([This EXCEPT !.inflight = RemoveAt(@, i)],
                            serverReply(inflight[i], shape)))
    /\ lastOp' = Op("response",
                    <<serverReply(inflight[i], shape), inflight[i]>>, FALSE)
    /\ UNCHANGED <<serverData, now, edits, givenData, issuedFrom>>

ClientSortArgs == {"f", "g", "none"}
ServerSortArgs == {"f", "none"}
DirectionArgs == {"asc", "desc"}
PageArgs == 0..(MaxRows + 1)

\* the operations that load, and the outcomes of their requests; fetch()
\* settles every request
NextLoads ==
  \/ Refresh
  \/ SortBy("f", "")
  \/ NextPage
  \/ PrevPage
  \/ LoadMore
  \/ ServerSuccess
  \/ ServerFailure

SpecLoads ==
  InitLoads /\ [][NextLoads]_vars /\ WF_vars(ServerSuccess \/ ServerFailure)

\* an incremental (infinite-scroll / lazy-load) table, client-side over the
\* first rows of the catalogue or server-side over an endpoint holding them
InitIncremental ==
  \E server \in BOOLEAN, size \in 1..MaxPageSize,
     data \in { FirstRows(n) : n \in 0..MaxRows } :
    /\ serverData = (IF server THEN data ELSE <<>>)
    /\ issuedFrom = Untracked
    /\ Starts(Constructed(server, TRUE, size,
                          IF server THEN <<>> ELSE data, FALSE, "websocket",
                          NoUser, FALSE, DefaultMaxVersions, FALSE))

\* the operations of an incremental table
NextIncremental ==
  \/ Refresh
  \/ \E field \in ServerSortArgs : SortBy(field, "")
  \/ ~serverSide /\ \E query \in Queries : Search(query)
  \/ \E value \in ServerQueries : SearchInput(value)
  \/ LoadMore
  \/ ServerSuccess
  \/ ServerFailure

SpecIncremental == InitIncremental /\ [][NextIncremental]_vars

\* sorting a client-side table: a click on any header, or a call of
\* sortBy(field, direction)
NextSort ==
  LET SortArgs == Fields \cup {"none"}
  IN
  \/ \E field \in SortArgs : SortBy(field, "")
  \/ \E direction \in DirectionArgs : SortBy("f", direction)
  \/ NextPage
  \/ LoadMore

SpecSort == Init /\ [][NextSort]_vars

\* a client-side paged table over any rows of the catalogue
InitPaged ==
  \E size \in 1..MaxPageSize, data \in DataSets(MaxRows) :
    /\ serverData = <<>>
    /\ issuedFrom = Untracked
    /\ Starts(Constructed(FALSE, FALSE, size, data, FALSE, "websocket", NoUser,
                          FALSE, DefaultMaxVersions, FALSE))

\* the operations that move a paged table from page to page
NextPaged ==
  \/ Refresh
  \/ SortBy("f", "")
  \/ \E query \in Queries : Search(query)
  \/ \E size \in 1..MaxPageSize : PageSizeChange(size)
  \/ NextPage
  \/ PrevPage
  \/ \E page \in PageArgs : GoToPage(page)

SpecPaged == InitPaged /\ [][NextPaged]_vars

\* sorting and searching a client-side table
NextSearch ==
  \/ \E field \in ClientSortArgs : SortBy(field, "")
  \/ \E query \in Queries : Search(query)
  \/ NextPage
  \/ LoadMore

SpecSearch == Init /\ [][NextSearch]_vars

\* a server-side table and the answers of its endpoint
NextResponses ==
  \/ Refresh
  \/ \E field \in ServerSortArgs : SortBy(field, "")
  \/ \E value \in ServerQueries : SearchInput(value)
  \/ \E query \in ServerQueries : Search(query)
  \/ NextPage
  \/ PrevPage
  \/ LoadMore
  \/ ServerAnswers
  \/ ServerFailure

SpecResponses == InitServer /\ [][NextResponses]_vars

\* a table with a rules engine
InitConditions ==
  /\ serverData = <<>>
  /\ issuedFrom = Untracked
  /\ Starts(Constructed(FALSE, FALSE, 1, FirstRows(1), FALSE, "websocket",
                        NoUser, FALSE, DefaultMaxVersions, FALSE))

\* rulesEngine.evaluateCondition(condition, row, column, value) is called;
\* the operation records the condition, the value and the result
EvaluateCondition(operator, operand, value) ==
  /\ Becomes(This)
  /\ lastOp' = Op("evaluateCondition",
                  <<[operator |-> operator, value |-> operand], value>>,
                  evaluateCondition([operator |-> operator,
                                     value |-> operand], value))
  /\ Env

NextConditions ==
  \* the operators and operands of the conditions evaluated, and the values
  \* they are evaluated on
  LET Operators == {">", ">=", "<", "<=", "is_null", "like"}
      ConditionValues ==
        { Num(18), Num(0), Str(<<"1", "8">>), Str(<<"a", "b">>), Null }
      CellValues ==
        { Num(17), Num(18), Num(19), Num(-5), Null, Undef, Str(<<>>), Str(<<" ">>),
          Str(<<"1", "8">>), Str(<<" ", "1", "8", " ">>), Str(<<"-", "5">>),
          Str(<<"1", "8", "a">>), Str(<<"a", "b">>) }
  IN
  \E operator \in Operators, operand \in ConditionValues,
     value \in CellValues : EvaluateCondition(operator, operand, value)

SpecConditions == InitConditions /\ [][NextConditions]_vars

\* the operations of a client-side table
Next ==
  \/ Refresh
  \/ \E field \in ClientSortArgs : SortBy(field, "")
  \/ \E query \in Queries : Search(query)
  \/ \E size \in 1..MaxPageSize : PageSizeChange(size)
  \/ NextPage
  \/ PrevPage
  \/ \E page \in PageArgs : GoToPage(page)
  \/ LoadMore

Spec == Init /\ [][Next]_vars

\* the operations of a server-side table and the settling of its requests
NextServer ==
  \/ Refresh
  \/ \E field \in ServerSortArgs : SortBy(field, "")
  \/ \E value \in ServerQueries : SearchInput(value)
  \/ \E size \in 1..MaxPageSize : PageSizeChange(size)
  \/ NextPage
  \/ PrevPage
  \/ \E page \in PageArgs : GoToPage(page)
  \/ LoadMore
  \/ ServerSuccess
  \/ ServerFailure

SpecServer == InitServer /\ [][NextServer]_vars

(***************************************************************************)
(* Collaborative editing of a client-side paged table, one row per page.   *)
(***************************************************************************)
EditFields == {"f"}
EditValues == { Str(<<"a">>), Str(<<"b">>) }

InitCollab ==
  \E mode \in {"websocket", "polling"}, user \in {NoUser, ConfiguredUser},
     history \in BOOLEAN, maxV \in {MaxVersionsOpt}, open \in BOOLEAN :
    /\ open => mode = "websocket"
    /\ serverData = <<>>
    /\ issuedFrom = Untracked
    /\ Starts(Constructed(FALSE, FALSE, 1, FirstRows(MaxRows), TRUE,
                          mode, user, history, maxV, open))

\* the user commits an edit of a displayed cell
EditCell(k, columnField, newValue) ==
  /\ collaboration
  /\ edits < MaxEdits
  /\ Becomes(editCell(This, displayed[k], columnField, newValue, now))
  /\ edits' = edits + 1
  /\ lastOp' = Op("edit", <<k, columnField, newValue>>, FALSE)
  /\ UNCHANGED <<serverData, now, givenData, issuedFrom>>

CellChanges ==
  \* the users a cell-change message can name: the identity the local edits
  \* are sent under, another user
  LET MessageUsers == { localIdentity(This), RemoteUser }
  IN
  { [ type |-> "cell-change", rowIndex |-> r, columnField |-> c, value |-> v,
      user |-> u ] :
      r \in {0, MaxRows}, c \in EditFields, v \in EditValues,
      u \in MessageUsers }

\* a message arrives on the socket, or in the answer to a poll
ReceiveMessage(message) ==
  /\ collaboration
  /\ collaborationMode = "websocket" => socketOpen
  /\ edits < MaxEdits
  /\ Becomes(handleCollaborationMessage(This, message, now))
  /\ edits' = edits + 1
  /\ lastOp' = Op(message.type, <<message>>,
                  message.user.present
                    /\ message.user.id = localIdentity(This).id)
  /\ UNCHANGED <<serverData, now, givenData, issuedFrom>>

ShowVersionHistory(rowIndex, columnField) ==
  /\ Becomes(showVersionHistory(This, rowIndex, columnField))
  /\ lastOp' = Op("showVersionHistory", <<>>, FALSE)
  /\ UNCHANGED <<serverData, now, edits, givenData, issuedFrom>>

\* restoreVersion(rowIndex, columnField, value), as the Restore button of
\* the version dialog calls it: with the value of a version of the cell
RestoreVersion(rowIndex, columnField, value) ==
  /\ collaboration
  /\ edits < MaxEdits
  /\ \E k \in 1..Len(cellVersions[CellKey(rowIndex, columnField)]) :
       cellVersions[CellKey(rowIndex, columnField)][k].value = value
  /\ Becomes(restoreVersion(This, rowIndex, columnField, value, now))
  /\ edits' = edits + 1
  /\ lastOp' = Op("restoreVersion", <<rowIndex, columnField, value>>, FALSE)
  /\ UNCHANGED <<serverData, now, givenData, issuedFrom>>

\* time passes
Tick ==
  /\ now < MaxClock
  /\ now' = now + 1
  /\ UNCHANGED <<serverSide, incremental, pageSize, currentPage, totalPages,
                 totalRecords, loadedRows, hasMoreData, isBusy, searchTerm,
                 sortField, sortDirection, originalData, optionsData, rowVal,
                 displayed, inflight, serverData, conditionalFormatting,
                 businessRules, validateOnEdit, validationErrors,
                 insights, insightsThreshold, insightsPending,
                 collaborators, presenceLog, ruleEvaluations,
                 collaboration,
                 collaborationMode, collaborationUser, versionHistory,
                 maxVersions, cellVersions, pendingChanges, socketOpen,
                 socketRef, connecting, closing, reconnectTimers,
                 collaborationTimer, destroyed, sent,
                 posts, posted, editLog, edits, givenData, issuedFrom, lastOp>>

\* a collaborative table with a collaborationUrl, in streaming mode (the
\* socket is connecting) or in polling mode
InitTransport ==
  \E mode \in {"websocket", "polling"}, size \in 1..MaxPageSize :
    /\ serverData = <<>>
    /\ issuedFrom = Untracked
    /\ Starts(Constructed(FALSE, FALSE, size, FirstRows(MaxRows), TRUE,
                          mode, ConfiguredUser, FALSE, DefaultMaxVersions,
                          FALSE))

SocketOpens ==
  /\ collaboration /\ collaborationMode = "websocket"
  /\ socketRef /\ connecting
  /\ Becomes(onopen(This))
  /\ lastOp' = Op("onopen", <<>>, FALSE)
  /\ Env

SocketCloses ==
  LET Connects == Cardinality({ i \in 1..Len(sent) : sent[i].type = "connect" })
  IN
  /\ collaboration /\ collaborationMode = "websocket"
  /\ socketOpen
  /\ Connects < MaxConnects
  /\ Becomes(onclose([This EXCEPT !.socketOpen = FALSE]))
  /\ lastOp' = Op("onclose", <<>>, FALSE)
  /\ Env

\* the close event of a socket closed by close()
CloseEvent ==
  /\ closing > 0
  /\ Becomes(onclose([This EXCEPT !.closing = @ - 1]))
  /\ lastOp' = Op("onclose", <<>>, TRUE)
  /\ Env

\* the timer set by onclose fires
Reconnect ==
  /\ reconnectTimers > 0
  /\ Becomes(initWebSocketConnection(
               [This EXCEPT !.reconnectTimers = @ - 1]))
  /\ lastOp' = Op("connect", <<>>, destroyed)
  /\ Env

Destroy ==
  /\ collaboration
  /\ ~destroyed
  /\ Becomes(destroy(This))
  /\ lastOp' = Op("destroy", <<>>, FALSE)
  /\ Env

\* the callback of the polling timer: the GET of fetchCollaborationChanges
\* (its answer is ReceiveMessage), then sendPendingChanges
PollTick ==
  /\ collaboration /\ collaborationMode = "polling"
  /\ collaborationTimer
  /\ Becomes(sendPendingChanges(This))
  /\ lastOp' = Op("poll", pendingChanges, FALSE)
  /\ Env

\* the endpoint accepts a POST and answers 2xx: no callback runs
PostAccepted ==
  \E i \in 1..Len(posts) :
    /\ Becomes([This EXCEPT !.posts = RemoveAt(@, i),
                            !.posted = Append(@, posts[i])])
    /\ lastOp' = Op("postAccepted", posts[i], FALSE)
    /\ Env

\* the fetch of a POST rejects (network error)
PostRejected ==
  \E i \in 1..Len(posts) :
    /\ Becomes(onPostRejected([This EXCEPT !.posts = RemoveAt(@, i)],
                              posts[i]))
    /\ lastOp' = Op("postRejected", posts[i], FALSE)
    /\ Env

\* the endpoint answers a POST with an error status: fetch resolves, and
\* sendPendingChanges registers no callback for a resolved fetch
PostErrorResponse ==
  \E i \in 1..Len(posts) :
    /\ Becomes([This EXCEPT !.posts = RemoveAt(@, i)])
    /\ lastOp' = Op("postErrorResponse", posts[i], FALSE)
    /\ Env

NextTransport ==
  \/ \E k \in 1..Len(displayed), c \in EditFields, v \in EditValues :
       EditCell(k, c, v)
  \/ SocketOpens
  \/ SocketCloses
  \/ Reconnect
  \/ PollTick
  \/ PostAccepted
  \/ PostRejected
  \/ PostErrorResponse

\* the socket, once closed, is reconnected; the polling timer fires; every
\* POST settles
SpecTransport ==
  /\ InitTransport
  /\ [][NextTransport]_vars
  /\ WF_vars(SocketOpens)
  /\ WF_vars(Reconnect)
  /\ WF_vars(PollTick)
  /\ WF_vars(PostAccepted \/ PostRejected \/ PostErrorResponse)

\* a collaborative table until and after destroy(): the user edits while
\* the table is in the document, the network and the timers go on
NextTeardown ==
  \/ \E k \in 1..Len(displayed), c \in EditFields, v \in EditValues :
       EditCell(k, c, v)
  \/ SocketOpens
  \/ SocketCloses
  \/ CloseEvent
  \/ Reconnect
  \/ PollTick
  \/ Destroy

SpecTeardown == InitTransport /\ [][NextTeardown]_vars

(***************************************************************************)
(* Insights: generateInsights analyses originalData in a timer callback.   *)
(* Confidences and the threshold are in hundredths.                        *)
(***************************************************************************)
\* options.columns, in order
Columns == <<"f", "g", "h">>

RECURSIVE SumOf(_)
SumOf(xs) == IF xs = <<>> THEN 0 ELSE Head(xs) + SumOf(Tail(xs))

\* the insights of the numeric branch for one column
numericInsights(values, column) ==
  \* Math.abs(v - avg) > 2 * stdDev over the numbers xs, in integers:
  \* n * (n v - sum)^2 > 4 * SUM (n x - sum)^2
  LET IsOutlier(v, xs) ==
        LET n == Len(xs)
            sum == SumOf(xs)
            squares == [i \in 1..n |-> (n * xs[i] - sum) * (n * xs[i] - sum)]
        IN n * (n * v - sum) * (n * v - sum) > 4 * SumOf(squares)
  IN
  \* Math.min(...xs) and Math.max(...xs) of a non-empty array
  LET MinOf(xs) == CHOOSE m \in { xs[i] : i \in 1..Len(xs) } :
                     \A i \in 1..Len(xs) : m <= xs[i]
      MaxOf(xs) == CHOOSE m \in { xs[i] : i \in 1..Len(xs) } :
                     \A i \in 1..Len(xs) : m >= xs[i]
  IN
  IF values = <<>> \/ ParseFloat(values[1]).nan THEN <<>>
  ELSE
    LET parsed == SelectSeq([i \in 1..Len(values) |-> ParseFloat(values[i])],
                            LAMBDA v : ~v.nan)
        numericValues == [i \in 1..Len(parsed) |-> parsed[i].x]
    IN IF Len(numericValues) <= 3 THEN <<>>
       ELSE
         LET outliers == SelectSeq(numericValues,
                                   LAMBDA v : IsOutlier(v, numericValues))
         IN (IF Len(outliers) > 0
             THEN << [ type |-> "warning", kind |-> "outliers",
                       column |-> column, confidence |-> 80 ] >>
             ELSE <<>>)
            \o << [ type |-> "info", kind |-> "statistics",
                     column |-> column, confidence |-> 90,
                     min |-> MinOf(numericValues),
                     max |-> MaxOf(numericValues) ] >>

\* the empty-value check for one column, over the filtered values
emptyInsights(values, column, rows) ==
  LET emptyCount ==
        Len(SelectSeq(values,
                      LAMBDA v : \/ v.t = "str" /\ v.s = <<>>
                                 \/ v.t \in {"null", "undef"}))
  IN IF emptyCount * 100 > 10 * rows
     THEN << [ type |-> "warning", kind |-> "empty",
               column |-> column, confidence |-> 85 ] >>
     ELSE <<>>

\* the duplicate check of the ID-like columns
duplicateInsights(values, column) ==
  \* the columns whose field name contains 'id'
  LET IdLikeColumns == {}
  IN
  IF column \in IdLikeColumns
     /\ Cardinality({ values[i] : i \in 1..Len(values) }) # Len(values)
  THEN << [ type |-> "error", kind |-> "duplicates",
            column |-> column, confidence |-> 95 ] >>
  ELSE <<>>

RECURSIVE columnInsights(_, _, _)
columnInsights(data, vals, n) ==
  \* data.map(row => row[column.field]).filter(val => val !== null && val !== undefined)
  LET columnValues(field) ==
        SelectSeq([i \in 1..Len(data) |-> vals[data[i]][field]],
                  LAMBDA val : val.t \notin {"null", "undef"})
  IN
  IF n = 0 THEN <<>>
  ELSE LET column == Columns[n]
           values == columnValues(column)
       IN columnInsights(data, vals, n - 1)
          \o numericInsights(values, column)
          \o emptyInsights(values, column, Len(data))
          \o duplicateInsights(values, column)

\* generateInsights(): the panel shows 'Analyzing data...' and the analysis
\* is left to a timer
generateInsights(self) == [self EXCEPT !.insightsPending = TRUE]

\* the timer callback of generateInsights
analyse(self) ==
  LET data == self.originalData
      found == (IF Len(data) < 5
                THEN << [ type |-> "info", kind |-> "sample",
                          column |-> "", confidence |-> 100 ] >>
                ELSE <<>>)
               \o columnInsights(data, self.rowVal, Len(Columns))
  IN IF data = <<>> THEN self
     ELSE [self EXCEPT !.insights =
             SelectSeq(found, LAMBDA insight :
                                insight.confidence >= self.insightsThreshold)]

\* a client-side table with the insights panel
InitInsights ==
  \* the confidence thresholds the tables are configured with
  LET Thresholds == {DefaultThreshold, 90}
  IN
  \E data \in DataSets(MaxRows), threshold \in Thresholds :
    /\ serverData = <<>>
    /\ issuedFrom = Untracked
    /\ Starts(loadData([Created(FALSE, FALSE, MaxPageSize, data, FALSE,
                                "websocket", NoUser, FALSE,
                                DefaultMaxVersions, FALSE)
                          EXCEPT !.insightsThreshold = threshold]))

GenerateInsights ==
  /\ Becomes(generateInsights(This))
  /\ lastOp' = Op("generateInsights", <<>>, FALSE)
  /\ Env

InsightsTimeout ==
  /\ insightsPending
  /\ Becomes(analyse([This EXCEPT !.insightsPending = FALSE]))
  /\ lastOp' = Op("insights", <<>>, originalData # <<>>)
  /\ Env

\* the user opens the insights panel and searches the table
NextInsights ==
  \/ GenerateInsights
  \/ InsightsTimeout
  \/ \E query \in Queries : Search(query)

SpecInsights == InitInsights /\ [][NextInsights]_vars

(***************************************************************************)
(* evaluateRule and its cache. JSON texts are sequences of characters and  *)
(* of the fixed pieces of the text of an object.                           *)
(***************************************************************************)
\* JSON.stringify(value) inside a template literal: NaN is written null,
\* undefined gives the text undefined
StringifyValue(v) ==
  CASE v.t \in {"null", "nan"} -> <<"n", "u", "l", "l">>
    [] v.t = "undef" -> <<"u", "n", "d", "e", "f", "i", "n", "e", "d">>
    [] v.t = "num" -> JsString(v)
    [] OTHER -> <<"\"">> \o v.s \o <<"\"">>

\* `${JSON.stringify(rule)}-${JSON.stringify(value)}`
cacheKey(rule, value) ==
  \* JSON.stringify(rule): a property whose value is a function or undefined
  \* is left out
  LET StringifyRule ==
        <<"{\"field\":\"", rule.field, "\",\"condition\":{\"operator\":\"",
          rule.condition.operator, "\"">>
        \o (IF rule.condition.value.t \in {"fn", "undef"} THEN <<>>
            ELSE <<",\"value\":">> \o StringifyValue(rule.condition.value))
        \o <<"}}">>
  IN
  StringifyRule \o <<"-">> \o StringifyValue(value)

\* rulesEngine.evaluateRule(rule, row) of a rule with a field: the result
evaluateRuleResult(self, rule, row) ==
  LET value == row[rule.field]
      key == cacheKey(rule, value)
  IN IF \E e \in self.ruleEvaluations : e.key = key
     THEN (CHOOSE e \in self.ruleEvaluations : e.key = key).result
     ELSE evaluateCondition(rule.condition, value)

\* rulesEngine.evaluateRule(rule, row) of a rule with a field: the instance
evaluateRule(self, rule, row) ==
  LET value == row[rule.field]
      key == cacheKey(rule, value)
  IN IF \E e \in self.ruleEvaluations : e.key = key THEN self
     ELSE [self EXCEPT !.ruleEvaluations =
             @ \cup {[key |-> key,
                      result |-> evaluateCondition(rule.condition, value)]}]

EvaluateRule(rule, value) ==
  /\ Becomes(evaluateRule(This, rule, [f |-> value]))
  /\ lastOp' = Op("evaluateRule", <<rule, value>>,
                  evaluateRuleResult(This, rule, [f |-> value]))
  /\ Env

NextRules ==
  \* the rules of the table: on column f, one with an operand, two with a
  \* function
  LET Rules ==
        { [ field |-> "f", condition |-> c ] :
            c \in { [operator |-> "is_null", value |-> Null],
                    [operator |-> "function", value |-> Fn("isNumber")],
                    [operator |-> "function", value |-> Fn("isString")] } }
  IN
  \* the values of column f in the rows the rules are evaluated on
  LET RuleValues ==
            \* NaN
        LET NaNValue == [t |-> "nan", n |-> 0, s |-> <<>>]
        IN
        { Num(18), Null, NaNValue, Undef }
  IN
  \E rule \in Rules, value \in RuleValues : EvaluateRule(rule, value)

SpecRules == InitConditions /\ [][NextRules]_vars

\* getExportData(): one export row, the values by column, per row of the
\* source array
getExportData(self) ==
  LET sourceData == IF self.serverSide THEN self.optionsData
                    ELSE IF self.incremental THEN self.originalData
                    ELSE self.optionsData
  IN [i \in 1..Len(sourceData) |-> self.rowVal[sourceData[i]]]

\* an editable client-side paged table with version history whose changes
\* are queued for the next poll, with a business rule on f, validating on
\* edit or not
InitEdits ==
  \* the business rule of the tables that validate: f must be at least 18
  LET AdultRule ==
        [ field |-> "f", condition |-> [operator |-> ">=", value |-> Num(18)] ]
  IN
  \E size \in 1..MaxPageSize, validate \in BOOLEAN :
    LET created == [Created(FALSE, FALSE, size, FirstRows(MaxRows), TRUE,
                            "polling", ConfiguredUser, TRUE,
                            DefaultMaxVersions, FALSE)
                      EXCEPT !.businessRules = <<AdultRule>>,
                             !.validateOnEdit = validate]
    IN /\ serverData = <<>>
       /\ issuedFrom = Untracked
       /\ Starts(loadData(created))

\* the user turns the pages and edits the cells on display
NextEdits ==
  \/ \E k \in 1..Len(displayed), c \in EditFields, v \in EditValues :
       EditCell(k, c, v)
  \/ NextPage
  \/ PrevPage

SpecEdits == InitEdits /\ [][NextEdits]_vars

NextCollab ==
  \/ \E k \in 1..Len(displayed), c \in EditFields, v \in EditValues :
       EditCell(k, c, v)
  \/ \E message \in CellChanges : ReceiveMessage(message)
  \/ \E r \in 0..(MaxRows - 1), c \in EditFields : ShowVersionHistory(r, c)
  \/ \E r \in 0..(MaxRows - 1), c \in EditFields, v \in EditValues :
       RestoreVersion(r, c, v)
  \/ Tick

SpecCollab == InitCollab /\ [][NextCollab]_vars

\* a removal timer of the user's current element fires, 5 s after a
\* user-disconnected message
RemovalTimeout(id) ==
  /\ collaborators[id].timers > 0
  /\ Becomes(removeCollaborator(This, id))
  /\ lastOp' = Op("removalTimeout", <<id>>, FALSE)
  /\ UNCHANGED <<serverData, now, edits, givenData, issuedFrom>>

\* users come and go
NextPresence ==
  \* the presence messages of the two users
  LET PresenceMessages ==
        { [ type |-> t, user |-> u ] :
            t \in {"user-connected", "user-disconnected"},
            u \in {ConfiguredUser, RemoteUser} }
  IN
  \/ \E message \in PresenceMessages : ReceiveMessage(message)
  \/ \E id \in UserIds : RemovalTimeout(id)

\* changes of other users arriving in a table that is sorted and searched
NextRemote ==
  \/ SortBy("f", "")
  \/ \E query \in ServerQueries : Search(query)
  \/ \E message \in CellChanges : ReceiveMessage(message)

\* a collaborative table of a configured user whose socket is open, with
\* or without version history
InitRemote ==
  \E history \in BOOLEAN :
    /\ serverData = <<>>
    /\ issuedFrom = Untracked
    /\ Starts(Constructed(FALSE, FALSE, 1, FirstRows(MaxRows), TRUE,
                          "websocket", ConfiguredUser, history,
                          MaxVersionsOpt, TRUE))

SpecRemote == InitRemote /\ [][NextRemote]_vars

SpecPresence == InitRemote /\ [][NextPresence]_vars

(***************************************************************************)
(* Properties.                                                             *)
(***************************************************************************)
LoadRequests == {"refresh", "sortBy", "searchInput", "pageSize"}

\* C1: at most one data load is in flight per instance, and a load is in
\* flight only while isBusy is true, whatever the interleaving of refresh,
\* sortBy, search input, page-size change, paging, loadMore and responses.
C1_AtMostOneLoadInFlight ==
  /\ Len(inflight) <= 1
  /\ Len(inflight) = 1 => isBusy

\* a load was requested while another one was in flight, and was dropped
C1_Witness ==
  /\ lastOp.name \in LoadRequests
  /\ lastOp.pre
  /\ Len(inflight) = 1

\* C2: refresh, sortBy, the server-side search input and a page-size change
\* invoked while isBusy is true start no load and leave currentPage,
\* loadedRows, hasMoreData, searchTerm, sortField and sortDirection unchanged.
C2_BusyRequestIsNoOp ==
  [][ (isBusy /\ lastOp'.name \in LoadRequests)
        => UNCHANGED <<currentPage, loadedRows, hasMoreData, searchTerm,
                       sortField, sortDirection, inflight>> ]_vars

ClientPaged == ~serverSide /\ ~incremental

\* C3: after every client-side paged load over a working set of n rows with
\* page size s, totalPages is ceil(n / s), or 1 if n is 0.
C3_TotalPages ==
  ClientPaged =>
    LET n == Len(optionsData) IN
    IF n = 0 THEN totalPages = 1
    ELSE /\ totalPages * pageSize >= n
         /\ (totalPages - 1) * pageSize < n

\* the rows a <tr> sequence shows
RowsOf(trs) ==
  LET rows == SelectSeq(trs, LAMBDA tr : tr.kind = "row")
  IN [i \in 1..Len(rows) |-> rows[i].id]

\* what the table body shows once page p has been loaded
PageRows(p) == RowsOf(loadClientData([This EXCEPT !.currentPage = p]).displayed)

RECURSIVE ConcatPages(_)
ConcatPages(k) == IF k = 0 THEN <<>> ELSE ConcatPages(k - 1) \o PageRows(k)

\* C4: in client paged mode the rows of pages 1..totalPages, concatenated in
\* page order, are the working set: every row once, in working-set order;
\* and the table body shows the page currentPage names.
C4_PagesPartitionWorkingSet ==
  ClientPaged =>
    /\ ConcatPages(totalPages) = optionsData
    /\ RowsOf(displayed) = PageRows(currentPage)

\* the last page, holding fewer rows than a page, has been navigated to
C4_Witness ==
  /\ ClientPaged
  /\ lastOp.name \in {"goToPage", "nextPage"}
  /\ Len(optionsData) = 3 /\ pageSize = 2
  /\ currentPage = 2 /\ totalPages = 2
  /\ Len(displayed) = 1

\* C5: goToPage(p) with p < 1 or p > totalPages, nextPage() on the last page
\* and prevPage() on the first page change neither currentPage nor the table
\* body and start no load.
C5_PagingNoOpAtBounds ==
  [][ (lastOp'.name \in {"goToPage", "nextPage", "prevPage"} /\ lastOp'.pre)
        => UNCHANGED <<currentPage, displayed, isBusy, inflight, totalPages,
                       optionsData>> ]_vars

\* nextPage() was called on the last, partly filled page
C5_Witness ==
  /\ lastOp.name = "nextPage" /\ lastOp.pre
  /\ Len(optionsData) = 3 /\ pageSize = 2
  /\ currentPage = 2 /\ totalPages = 2
  /\ RowsOf(displayed) = <<optionsData[3]>>

\* C6: once more than maxVersions versions of a cell have been recorded, the
\* stored history of the cell is exactly the most recent maxVersions of them,
\* oldest first.
C6_HistoryHoldsMostRecent ==
  \A k \in CellKeys :
    Len(editLog[k]) > maxVersions =>
      cellVersions[k] = SubSeq(editLog[k], Len(editLog[k]) - maxVersions + 1,
                               Len(editLog[k]))

\* C7: handling a cell-change message whose user.id is the local user's id
\* changes neither the row data, nor the version history, nor the pending
\* changes.
C7_EchoNeverMutates ==
  [][ (lastOp'.name = "cell-change" /\ lastOp'.pre)
        => UNCHANGED <<rowVal, cellVersions, pendingChanges>> ]_vars

IsBlank(query) == \A i \in 1..Len(query) : query[i] = " "

\* C8: after search('') or a search for blanks only, the working data is the
\* array handed to the constructor, same rows in the same order.
C8_BlankSearchRestores ==
  (lastOp.name = "search" /\ IsBlank(lastOp.q)) => optionsData = givenData

\* a blank search after a search that had filtered rows out
C8_Witness ==
  /\ lastOp.name = "search" /\ lastOp.q = <<" ">> /\ lastOp.pre
  /\ Len(optionsData) = 3

\* the text of a value: nothing for null
TextOf(v) == IF v.t = "null" THEN <<>> ELSE JsString(v)

\* A and a, B and b are the same letter
SameLetter(c, d) ==
  \/ c = d
  \/ {c, d} = {"a", "A"}
  \/ {c, d} = {"b", "B"}

ContainsIgnoringCase(hay, needle) ==
  \E i \in 0..(Len(hay) - Len(needle)) :
    \A j \in 1..Len(needle) : SameLetter(hay[i + j], needle[j])

\* C9: after search(q) with a non-blank q the working data is exactly the
\* rows of the constructor's array, in its order, that have a column whose
\* text contains q case-insensitively, whatever was searched or sorted before.
C9_SearchFiltersOriginal ==
  (lastOp.name = "search" /\ ~IsBlank(lastOp.q)) =>
    optionsData =
      SelectSeq(givenData,
                LAMBDA row : \E c \in Fields :
                   ContainsIgnoringCase(TextOf(rowVal[row][c]), lastOp.q))

\* a search in a sorted and already filtered table
C9_Witness ==
  /\ lastOp.name = "search" /\ lastOp.q = <<"a">> /\ lastOp.pre
  /\ sortField # ""
  /\ Len(givenData) = 3 /\ Len(optionsData) = 2

PositionOf(arr, row) == CHOOSE i \in 1..Len(arr) : arr[i] = row

\* C11: within one client-side sortBy call, two rows whose keys compare equal
\* keep the relative order they had in the working array before the call,
\* in ascending and in descending direction.
C11_SortIsStable ==
  [][ (lastOp'.name = "sortBy" /\ lastOp'.q[1] \in Fields /\ ~serverSide) =>
        \A i, j \in 1..Len(optionsData) :
          ( /\ i < j
            /\ KeyOrder(optionsData[i], optionsData[j], lastOp'.q[1],
                        sortDirection', rowVal) = 0 )
          => PositionOf(optionsData', optionsData[i])
               < PositionOf(optionsData', optionsData[j]) ]_vars

\* C12: after sortBy(field, direction) the sort direction is the requested
\* one and the working data is in that order of the field, whatever the sort
\* state was before.
C12_SortByRequestedDirection ==
  ( /\ lastOp.name = "sortBy" /\ ~serverSide
    /\ lastOp.q[1] \in Fields /\ lastOp.q[2] \in DirectionArgs )
  => /\ sortDirection = lastOp.q[2]
     /\ ArraySort(optionsData, lastOp.q[1], lastOp.q[2], rowVal) = optionsData

\* C13: when the only pending request fails, the Table State (currentPage,
\* totalPages, totalRecords, loadedRows, searchTerm, sort state) is the one
\* the operation that issued the request was invoked in, and the table is
\* not busy
C13_FailureRetainsPriorState ==
  [][ (lastOp'.name = "failure" /\ issuedFrom # NoTableState) =>
        /\ TableState(This)' = issuedFrom
        /\ ~isBusy' ]_vars

\* C14: a table that is loading stops loading, in client and in server
\* mode, when every request settles
C14_LoadingEnds == isBusy ~> ~isBusy

\* the cell changes a local edit can produce
LocalChanges ==
  { [ type |-> "cell-change", rowIndex |-> r, columnField |-> c,
      value |-> v, user |-> ConfiguredUser, timestamp |-> 0 ] :
      r \in 0..(MaxRows - 1), c \in EditFields, v \in EditValues }

InSeq(x, seq) == \E i \in 1..Len(seq) : seq[i] = x

\* the change was written to the socket or put into the body of a POST
Dispatched(change) ==
  \/ InSeq(change, sent)
  \/ \E i \in 1..Len(posts) : InSeq(change, posts[i])
  \/ \E i \in 1..Len(posted) : InSeq(change, posted[i])

\* C15: every local cell change that is queued is eventually sent to the
\* collaboration server: written to the socket after it (re)opens, or posted
\* on a later poll tick
C15_QueuedChangeIsSent ==
  \A change \in LocalChanges :
    InSeq(change, pendingChanges) ~> Dispatched(change)

\* C16: when the POST of a batch fails (network error or error response),
\* every change of the batch is in pendingChanges afterwards
C16_FailedFlushRequeues ==
  [][ lastOp'.name \in {"postRejected", "postErrorResponse"} =>
        \A k \in 1..Len(lastOp'.q) : InSeq(lastOp'.q[k], pendingChanges')
    ]_vars

\* C17: when a remote cell-change message has been applied, applying the
\* same message again leaves the row data and the version history as they are
C17_SecondApplicationChangesNothing ==
  (collaboration /\ lastOp.name = "cell-change") =>
    LET again == handleCollaborationMessage(This, lastOp.q[1], now)
    IN /\ again.rowVal = rowVal
       /\ again.cellVersions = cellVersions

\* the messages handed to the collaboration transport, in order
Outbound(socketMessages, queued) == socketMessages \o queued

\* C18: restoreVersion(row, field, v) on an existing cell of a table with
\* version history writes v to the cell, emits exactly one outbound
\* cell-change carrying v, and appends exactly one version entry tagged
\* "(restored)"; the earlier entries stay, but for the oldest one when the
\* history was full
C18_RestoreIsANewVersion ==
  [][ (lastOp'.name = "restoreVersion" /\ edits' # edits /\ versionHistory) =>
        LET rowIndex == lastOp'.q[1]
            columnField == lastOp'.q[2]
            value == lastOp'.q[3]
            old == cellVersions[CellKey(rowIndex, columnField)]
            new == cellVersions'[CellKey(rowIndex, columnField)]
            kept == SubSeq(new, 1, Len(new) - 1)
            before == Outbound(sent, pendingChanges)
            after == Outbound(sent', pendingChanges')
        IN /\ rowVal'[optionsData[rowIndex + 1]][columnField] = value
           /\ Len(sent') >= Len(sent)
           /\ Len(pendingChanges') >= Len(pendingChanges)
           /\ Len(after) = Len(before) + 1
           /\ \E i \in 1..Len(after) :
                /\ after[i] \notin { before[j] : j \in 1..Len(before) }
                   \/ i = Len(sent') \/ i = Len(after)
                /\ after[i].type = "cell-change"
                /\ after[i].rowIndex = rowIndex
                /\ after[i].columnField = columnField
                /\ after[i].value = value
           /\ Len(new) >= 1
           /\ new[Len(new)].value = value
           /\ new[Len(new)].user.name \in {"Ann (restored)",
                                           "undefined (restored)"}
           /\ IF Len(old) < maxVersions THEN kept = old
              ELSE \E i \in 1..Len(old) :
                     /\ kept = RemoveAt(old, i)
                     /\ \A j \in 1..Len(old) :
                          old[i].timestamp <= old[j].timestamp
    ]_vars

\* C19: in incremental mode a loadMore() called when hasMoreData is false
\* appends no rows, leaves loadedRows unchanged and sends no request
C19_LoadMoreNoOpWhenExhausted ==
  [][ (lastOp'.name = "loadMore" /\ incremental /\ ~hasMoreData) =>
        UNCHANGED <<displayed, loadedRows, inflight, hasMoreData, isBusy,
                    optionsData, currentPage>> ]_vars

\* loadMore() was called on an idle server-side table that had loaded rows
\* and had no more data
C19_Witness ==
  /\ incremental /\ serverSide
  /\ lastOp.name = "loadMore" /\ lastOp.pre
  /\ ~isBusy /\ ~hasMoreData /\ inflight = <<>>
  /\ loadedRows > 0

\* a step that applies a batch: the answer to a request in server mode, a
\* load in client mode
BatchApplied ==
  /\ incremental
  /\ IF serverSide THEN lastOp'.name = "response"
     ELSE \/ lastOp'.name \in {"refresh", "sortBy", "search"} /\ ~isBusy
          \/ lastOp'.name = "loadMore" /\ ~lastOp'.pre

\* the number of rows of the batch
ReturnedCount ==
  IF lastOp'.name \in {"response", "loadMore"} THEN loadedRows' - loadedRows
  ELSE loadedRows'

\* C20 as stated: after each batch hasMoreData == (returnedCount >=
\* requestedLimit), in client mode as in server mode
C20_HasMoreIffFullBatch ==
  [][ BatchApplied => hasMoreData' = (ReturnedCount >= pageSize) ]_vars

\* C20 amended: after each batch, in server mode hasMoreData ==
\* (returnedCount >= requestedLimit), in client mode hasMoreData ==
\* (loadedRows < the length of the data array)
C20_HasMoreByMode ==
  [][ BatchApplied =>
        IF serverSide THEN hasMoreData' = (ReturnedCount >= pageSize)
        ELSE hasMoreData' = (loadedRows' < Len(optionsData')) ]_vars

\* a server-side table got a full batch, or a client-side table loaded a
\* full batch that was the last of its data
C20_Witness ==
  /\ incremental /\ ~isBusy
  /\ \/ serverSide /\ lastOp.name = "response" /\ hasMoreData
        /\ loadedRows >= pageSize
     \/ ~serverSide /\ lastOp.name = "loadMore" /\ ~lastOp.pre
        /\ ~hasMoreData /\ loadedRows = 2 * pageSize

\* C21: after destroy() the polling timer is cleared, the table holds no
\* socket, and no collaboration connection or poll is started
C21_NoCollaborationAfterDestroy ==
  destroyed =>
    /\ ~collaborationTimer
    /\ ~socketRef /\ ~socketOpen
    /\ lastOp.name \notin {"connect", "poll", "onopen"}

\* the total a response supplies
SuppliedTotal(data) ==
  IF data.totalRecords # Absent THEN data.totalRecords
  ELSE IF data.recordsTotal # Absent THEN data.recordsTotal
  ELSE data.recordsFiltered

\* C22: in server-side paged mode, after a response with rows and one of
\* totalPages / totalRecords / recordsTotal / recordsFiltered (a positive
\* number), totalPages is the supplied totalPages or ceil(total / pageSize)
\* for the supplied total, and totalRecords is the supplied total
C22_TotalsFromAnyShape ==
  ( /\ serverSide /\ ~incremental
    /\ lastOp.name = "response"
    /\ Len(lastOp.q[1].items) > 0 )
  => LET data == lastOp.q[1] IN
     IF data.totalPages # Absent THEN totalPages = data.totalPages
     ELSE /\ totalPages = Ceil(SuppliedTotal(data), pageSize)
          /\ totalRecords = SuppliedTotal(data)

\* the request the step has dispatched
Dispatches == Len(inflight') = Len(inflight) + 1
NewRequest == inflight'[Len(inflight')]

\* C23: in server-side mode search(q) with a non-empty q on an idle table
\* dispatches a request that carries search = q, and every request
\* dispatched while a sort is active carries sortField and sortOrder
C23_RequestCarriesSearchAndSort ==
  [][ serverSide =>
        /\ ( /\ lastOp'.name = "search" /\ ~isBusy
             /\ lastOp'.q # <<>> /\ ~TrimIsEmpty(lastOp'.q) )
           => /\ Dispatches
              /\ NewRequest.search = lastOp'.q
        /\ (Dispatches /\ sortField' # "")
           => /\ NewRequest.sortField = sortField'
              /\ NewRequest.sortOrder = sortDirection' ]_vars

\* C24: an exception thrown by the condition of a rule while a page of a
\* client-side table is rendered does not propagate: the whole page is on
\* display and the load has finished with isBusy false
C24_RuleExceptionContained ==
  (conditionalFormatting /\ ~serverSide /\ ~incremental) =>
    /\ ~isBusy
    /\ RowsOf(displayed) = Slice(optionsData, (currentPage - 1) * pageSize,
                                 currentPage * pageSize)

\* the operators that compare numbers
NumericOperators == {">", ">=", "<", "<="}

\* C25: evaluateCondition with operator >, >=, < or <= returns the
\* comparison of the two operands coerced to numbers, and false when either
\* coerces to NaN; {operator: '>=', value: 18} is false for 17, true for 18
C25_NumericComparison ==
  (lastOp.name = "evaluateCondition"
     /\ lastOp.q[1].operator \in NumericOperators) =>
    LET operator == lastOp.q[1].operator
        left == ToNumber(lastOp.q[2])
        right == ToNumber(lastOp.q[1].value)
        result == lastOp.pre
    IN /\ (left.nan \/ right.nan) => ~result
       /\ (~left.nan /\ ~right.nan) =>
            result = CASE operator = ">" -> left.x > right.x
                       [] operator = ">=" -> left.x >= right.x
                       [] operator = "<" -> left.x < right.x
                       [] OTHER -> left.x <= right.x
       /\ (operator = ">=" /\ lastOp.q[1].value = Num(18))
            => /\ lastOp.q[2] = Num(17) => ~result
               /\ lastOp.q[2] = Num(18) => result

\* {operator: '>=', value: 18} has been evaluated on 18 and was true
C25_Witness ==
  /\ lastOp.name = "evaluateCondition"
  /\ lastOp.q[1] = [operator |-> ">=", value |-> Num(18)]
  /\ lastOp.q[2] = Num(18)
  /\ lastOp.pre

\* the value breaks a business rule of the field
BreaksRule(columnField, value) ==
  \E i \in 1..Len(businessRules) :
    /\ businessRules[i].field = columnField
    /\ ~evaluateCondition(businessRules[i].condition, value)

\* C26: with validateOnEdit enabled, when a local edit of a cell has been
\* committed with a value that breaks a business rule of its field, a
\* violation is recorded for a cell of that field
C26_EditIsValidated ==
  ( /\ validateOnEdit
    /\ lastOp.name = "edit"
    /\ pendingChanges # <<>>
    /\ BreaksRule(lastOp.q[2], lastOp.q[3]) )
  => \E key \in validationErrors : key[2] = lastOp.q[2]

\* C29: in a client-side paged table, a committed local edit of the k-th
\* row on display on page p changes the working-data row
\* (p - 1) * pageSize + k (counted from 1), and the outbound change and the
\* version key carry that row's index
C29_EditTargetsDisplayedRow ==
  [][ ( /\ lastOp'.name = "edit"
        /\ ~serverSide /\ ~incremental
        /\ Len(pendingChanges') > Len(pendingChanges) )
      => LET k == lastOp'.q[1]
             columnField == lastOp'.q[2]
             rowIndex == (currentPage - 1) * pageSize + k - 1
         IN /\ rowVal'[optionsData'[rowIndex + 1]][columnField] = lastOp'.q[3]
            /\ pendingChanges'[Len(pendingChanges')].rowIndex = rowIndex
            /\ cellVersions'[CellKey(rowIndex, columnField)]
                 # cellVersions[CellKey(rowIndex, columnField)] ]_vars

\* C30: whenever a server load completes successfully and leaves isBusy
\* false, the request that produced the rows put on display is the one
\* built from the current currentPage (or loadedRows offset), searchTerm,
\* sortField and sortDirection: the answer to parameters that are no longer
\* current is never displayed
C30_DisplayedRowsAreCurrent ==
  [][ (lastOp'.name = "response" /\ ~isBusy')
        => /\ lastOp'.q[2] = buildServerParams(This)
           /\ lastOp'.q[2].search = searchTerm'
           /\ lastOp'.q[2].sortField = sortField'
           /\ lastOp'.q[2].page = buildServerParams(This').page ]_vars

\* the rows of arr are rows of ref, in the order they have in ref
InOrderOf(arr, ref) ==
  /\ \A i \in 1..Len(arr) : \E p \in 1..Len(ref) : ref[p] = arr[i]
  /\ \A i, j \in 1..Len(arr) :
       i < j => PositionOf(ref, arr[i]) < PositionOf(ref, arr[j])

\* C27: a search of a client-side table whose data is sorted leaves the
\* working data in the original order, the order of the array given to the
\* constructor, and leaves sortField and sortDirection as they were
C27_SearchResetsToOriginalOrder ==
  [][ (lastOp'.name = "search" /\ ~serverSide /\ sortField # "")
        => /\ InOrderOf(optionsData', givenData)
           /\ sortField' = sortField
           /\ sortDirection' = sortDirection ]_vars

\* a search for a letter after a sort: two rows or more match and they are
\* not in the order of the active sort
C27_Witness ==
  /\ lastOp.name = "search" /\ ~IsBlank(lastOp.q)
  /\ ~serverSide /\ sortField # ""
  /\ Len(optionsData) >= 2
  /\ optionsData # ArraySort(optionsData, sortField, sortDirection, rowVal)

\* the rows of the analysed data whose value in the column is null,
\* undefined or the empty string
EmptyRows(column) ==
  { i \in 1..Len(originalData) :
      LET v == rowVal[originalData[i]][column]
      IN v.t \in {"null", "undef"} \/ (v.t = "str" /\ v.s = <<>>) }

\* C28: after an analysis, every column with an empty value in more than
\* 10% of the rows has an empty-value warning among the insights, provided
\* the warning's confidence (0.85) reaches the threshold
C28_EmptyColumnsAreFlagged ==
  (lastOp.name = "insights" /\ lastOp.pre /\ 85 >= insightsThreshold)
    => \A n \in 1..Len(Columns) :
         Cardinality(EmptyRows(Columns[n])) * 100 > 10 * Len(originalData)
           => \E i \in 1..Len(insights) :
                /\ insights[i].kind = "empty"
                /\ insights[i].column = Columns[n]

\* C31: showVersionHistory(row, field) leaves the stored version sequence of
\* every cell unchanged, in content and in order
C31_ViewLeavesHistory ==
  [][ lastOp'.name = "showVersionHistory" => cellVersions' = cellVersions ]_vars

\* C32: a cell-change of another user for rowIndex r and field f, r being a
\* position of the working array, sets field f of the row at position r to
\* the message's value, whatever sort or search came before, and, with
\* versionHistory, appends one entry with that value to the history of the
\* key of r and f, the other histories staying as they are
C32_RemoteChangeAppliedByIndex ==
  [][ ( /\ lastOp'.name = "cell-change" /\ edits' # edits
        /\ ~lastOp'.pre
        /\ hasRow(This, lastOp'.q[1].rowIndex) )
      => LET message == lastOp'.q[1]
             cellKey == CellKey(message.rowIndex, message.columnField)
             old == cellVersions[cellKey]
             new == cellVersions'[cellKey]
         IN /\ optionsData' = optionsData
            /\ rowVal'[optionsData[message.rowIndex + 1]][message.columnField]
                 = message.value
            /\ \A k \in CellKeys \ {cellKey} :
                 cellVersions'[k] = cellVersions[k]
            /\ IF versionHistory
               THEN /\ new # <<>>
                    /\ new[Len(new)].value = message.value
                    /\ \/ SubSeq(new, 1, Len(new) - 1) = old
                       \/ /\ Len(old) = maxVersions
                          /\ SubSeq(new, 1, Len(new) - 1) = Tail(old)
               ELSE new = old ]_vars

\* a change of another user has been applied to the first row of a working
\* array that a sort has reordered, and its version is stored
C32_Witness ==
  /\ lastOp.name = "cell-change" /\ ~lastOp.pre
  /\ versionHistory /\ sortField # ""
  /\ optionsData # givenData /\ Len(optionsData) = Len(givenData)
  /\ lastOp.q[1].rowIndex = 0
  /\ rowVal[optionsData[1]][lastOp.q[1].columnField] = lastOp.q[1].value
  /\ cellVersions[CellKey(0, lastOp.q[1].columnField)] # <<>>

\* C33: when the answer to a first-batch request (offset 0: the request of
\* a refresh, a sort or a search change) of a server-side incremental table
\* has been handled, the rows on display are exactly the rows of that
\* answer, and loadedRows is the number of rows on display
C33_ResetShowsFirstBatchOnly ==
  [][ ( /\ lastOp'.name = "response"
        /\ serverSide /\ incremental
        /\ lastOp'.q[2].start = 0 )
      => /\ RowsOf(displayed') = lastOp'.q[1].items
         /\ loadedRows' = Len(RowsOf(displayed')) ]_vars

\* C34: when the POST of a batch is rejected, the changes of the batch are
\* put back in front of the changes queued since, so that the next flush
\* sends them in the order they were made
C34_RequeuedChangesGoFirst ==
  [][ lastOp'.name = "postRejected"
        => pendingChanges' = lastOp'.q \o pendingChanges ]_vars

\* C36: a user whose most recent presence message is user-connected is in
\* the roster, also after the removal timer of an earlier disconnection
\* has fired
C36_RosterFollowsLatestMessage ==
  \A id \in UserIds :
    presenceLog[id] = "user-connected" => collaborators[id].present

\* C35: whatever was evaluated before, evaluateRule(rule, row) returns what
\* evaluateCondition returns for the rule's condition and the row's value,
\* also for rules that differ only in their function and for the values
\* null, NaN and undefined
C35_CachedResultIsTheResult ==
  lastOp.name = "evaluateRule"
    => lastOp.pre = evaluateCondition(lastOp.q[1].condition, lastOp.q[2])

\* C37: a client-side sortBy leaves the retained original array as it is,
\* the array given to the constructor, so that search('') after it gives
\* the working array the order it had before any sort
C37_SortKeepsOriginal ==
  [][ (lastOp'.name = "sortBy" /\ ~serverSide)
        => /\ originalData' = originalData
           /\ originalData' = givenData
           /\ search(This', <<>>).optionsData = givenData ]_vars

\* a sort has reordered the working array and the original array has the
\* constructor's order
C37_Witness ==
  /\ lastOp.name = "sortBy" /\ ~serverSide
  /\ Len(optionsData) >= 2
  /\ Len(optionsData) = Len(givenData)
  /\ optionsData # givenData
  /\ originalData = givenData

\* C38: when a server-side paged table has handled a successful answer, its
\* row array holds the rows of the answer: getExportData() has one export
\* row per row on display and every position of a row on display is a
\* position of the row array
C38_RowArrayHoldsLoadedRows ==
  [][ (lastOp'.name = "response" /\ serverSide /\ ~incremental /\ ~isBusy')
        => /\ optionsData' = lastOp'.q[1].items
           /\ Len(getExportData(This')) = Len(RowsOf(displayed'))
           /\ \A k \in 1..Len(RowsOf(displayed')) : hasRow(This', k - 1) ]_vars

\* the rows on display are the first loadedRows rows of the working array
\* of n rows, each once and in order, and more data is expected exactly
\* while some row is not displayed
ShowsLoadedPrefix ==
  /\ loadedRows <= Len(optionsData)
  /\ RowsOf(displayed) = SubSeq(optionsData, 1, loadedRows)
  /\ hasMoreData = (loadedRows < Len(optionsData))

\* C39: in client incremental mode, after any sequence of loadMore,
\* refresh, sortBy and search, loadedRows <= n and the rows on display are
\* the first loadedRows rows of the working array, each once and in order;
\* every loadMore while rows are missing displays at least one more of
\* them, so that repeated loadMore displays all n rows
C39_IncrementalShowsPrefix ==
  /\ []((~serverSide /\ incremental) => ShowsLoadedPrefix)
  /\ [][ (~serverSide /\ incremental /\ lastOp'.name = "loadMore"
            /\ loadedRows < Len(optionsData))
          => /\ loadedRows' > loadedRows
             /\ optionsData' = optionsData ]_vars

\* loadMore displayed the last rows of a working array that a sort had
\* reordered, after more than one batch
C39_Witness ==
  /\ ~serverSide /\ incremental
  /\ lastOp.name = "loadMore" /\ ~lastOp.pre
  /\ sortField # "" /\ optionsData # givenData
  /\ loadedRows = Len(optionsData) /\ loadedRows > pageSize
  /\ RowsOf(displayed) = optionsData

\* totalPages, or 1 if it is less
LastPage == IF totalPages > 1 THEN totalPages ELSE 1

\* C40: in every reachable state of a client-side paged table
\* 1 <= currentPage <= max(1, totalPages), whatever the sequence of
\* goToPage, nextPage, prevPage, sortBy, search, refresh and page-size
\* changes
C40_CurrentPageInRange ==
  ClientPaged => (1 <= currentPage /\ currentPage <= LastPage)

\* a search left fewer pages than the original rows fill, down to one
C40_Witness ==
  /\ ClientPaged
  /\ lastOp.name = "search" /\ ~IsBlank(lastOp.q)
  /\ Ceil(Len(originalData), pageSize) >= 2
  /\ totalPages <= 1
  /\ currentPage = 1

====
